---- MODULE Spec2Model ----
(***************************************************************************)
(* Model of the XBS / Spring pickup-point (PUDO) integration server.       *)
(*                                                                         *)
(* The repository holds five versions of the Express server:              *)
(*   "server" = src/server.js                                              *)
(*   "p000"   = src/unnamed/part_000  (createXBSShipment, strict PUDO)      *)
(*   "p001"   = src/unnamed/part_001  (lookup + inline shipment endpoint)   *)
(*   "p002"   = src/unnamed/part_002  (first lookup draft)                  *)
(*   "p003"   = src/unnamed/part_003  (createXBSShipment, lenient PUDO)     *)
(* variant says which of them is running.  A handler runs up to its next   *)
(* await (it answers, dies or sends one outbound request), then the reply  *)
(* resumes it.  Spec follows one exchange at a time over all its inputs;   *)
(* SpecConcurrent interleaves MaxInFlight exchanges on a few inputs;       *)
(* SpecDerive applies the pure helpers to the orders a variant can hold;   *)
(* SpecReshape applies the reshaping to one location's coordinates;        *)
(* SpecPage runs the script of the selection page against every order of   *)
(* clicks, searches and answers.                                           *)
(*                                                                         *)
(* JavaScript strings that the code inspects (country, Carrier) are        *)
(* sequences of one-character strings; strings that are only passed        *)
(* through are atomic.  Undefined stands for a missing property.           *)
(***************************************************************************)
EXTENDS Integers, Sequences, FiniteSets, TLC

VARIABLES variant, pc, req, outReq, aggCalls, reply, filterRan, points, filtered, resp,
          shopCalls, shopReply, orderData, shipmentData, derived, inflight, place, page, selfResp

vars == <<variant, pc, req, outReq, aggCalls, reply, filterRan, points, filtered, resp,
          shopCalls, shopReply, orderData, shipmentData, derived, inflight, place, page, selfResp>>

\* ------------------------------------------------------------------ bounds
MaxPoints == 3
\* longest shipping_lines and line_items lists the derivations are tried on
MaxLines == 2
MaxItems == 2
\* requests in flight at the same time
MaxInFlight == 2
MaxSearches == 2
MaxCompletions == 2

\* ------------------------------------------------------------- JS strings
Undefined == "<undefined>"

LowerChars == <<"a","b","c","d","e","f","g","h","i","j","k","l","m",
                "n","o","p","q","r","s","t","u","v","w","x","y","z">>

UpperChars == <<"A","B","C","D","E","F","G","H","I","J","K","L","M",
                "N","O","P","Q","R","S","T","U","V","W","X","Y","Z">>

ToUpperChar(c) ==
  IF \E i \in 1..26 : LowerChars[i] = c
    THEN UpperChars[CHOOSE i \in 1..26 : LowerChars[i] = c]
    ELSE c

ToLowerChar(c) ==
  IF \E i \in 1..26 : UpperChars[i] = c
    THEN LowerChars[CHOOSE i \in 1..26 : UpperChars[i] = c]
    ELSE c

\* String.prototype.toUpperCase / toLowerCase
ToUpperCase(s) == [i \in 1..Len(s) |-> ToUpperChar(s[i])]

ToLowerCase(s) == [i \in 1..Len(s) |-> ToLowerChar(s[i])]

\* String.prototype.includes
Includes(s, frag) ==
  \E i \in 0..(Len(s) - Len(frag)) : SubSeq(s, i + 1, i + Len(frag)) = frag

\* ------------------------------------------------------- string literals
FR == <<"F","R">>
PL == <<"P","L">>
IT == <<"I","T">>

FragColisPrive == <<"c","o","l","i","s"," ","p","r","i","v","e">>
FragInpost == <<"i","n","p","o","s","t">>
FragColisPriveLegacy == <<"C","o","l","i","s"," ","P","r","i","v","e">>
FragInPostLegacy == <<"I","n","P","o","s","t"," ","C","o","l","l","e","c","t",
                      " ","S","e","r","v","i","c","e">>

\* ------------------------------------------------------------ input sets
Variants == {"server", "p000", "p001", "p002", "p003"}

\* req.query.country: missing, a string, or (repeated parameter) an array
CountryStrings == { <<"F","R">>, <<"f","r">>, <<"P","L">>, <<"p","l">>,
                    <<"i","t">>, <<"D","E">> }

Countries ==
  {[kind |-> "absent", val |-> <<>>], [kind |-> "array", val |-> <<>>]}
    \cup {[kind |-> "string", val |-> c] : c \in CountryStrings}

Zips == {Undefined, "75001"}
Cities == {Undefined, "Paris"}

\* Carrier values the aggregator may send for a point
CarrierStrings ==
  { <<"C","o","l","i","s"," ","P","r","i","v","e">>,
    <<"X"," ","C","O","L","I","S"," ","P","R","I","V","E">>,
    <<"I","n","P","o","s","t"," ","C","o","l","l","e","c","t"," ","S","e","r","v","i","c","e">>,
    <<"D","H","L">> }

Carriers ==
  {[has |-> FALSE, val |-> <<>>]} \cup {[has |-> TRUE, val |-> c] : c \in CarrierStrings}

\* the i-th point of a reply has Id i
PointLists ==
  UNION {[1..n -> Carriers] : n \in 0..MaxPoints}

MkPoints(cs) == [i \in 1..Len(cs) |-> [Id |-> i, Carrier |-> cs[i]]]

\* ------------------------------------------------------- JavaScript numbers
\* A weight is a JavaScript number, an IEEE 754 double: a missing property,
\* NaN, zero, or a positive normal number  1.b2..b53 * 2^exp  with
\* bits = <<1, b2, .., b53>>.
\* NoWeight is a body without the field
NoWeight == [kind |-> "absent", exp |-> 0, bits |-> <<>>]
\* NaNWeight is JavaScript's NaN
NaNWeight == [kind |-> "nan", exp |-> 0, bits |-> <<>>]
Zero == [kind |-> "zero", exp |-> 0, bits |-> <<>>]
\* bits of the significand of a double
Precision == 53

\* the one element of a set of one element.  An intermediate result is bound
\* to a name with  \in {e}  where it is used many times, which computes it
\* once
The(S) == CHOOSE x \in S : TRUE

\* bits + 1; one bit longer when every bit was 1
Increment(bits) ==
  LET n == Len(bits)
  IN  IF \A i \in 1..n : bits[i] = 1
        THEN [i \in 1..(n + 1) |-> IF i = 1 THEN 1 ELSE 0]
        ELSE The({ [i \in 1..n |-> IF i < k THEN bits[i] ELSE IF i = k THEN 1 ELSE 0]
                     : k \in {j \in 1..n : bits[j] = 0 /\ \A m \in (j + 1)..n : bits[m] = 1} })

\* round to nearest, ties to even: kept are the first Precision bits of the
\* exact value, up tells that the rest is above half a unit, tie that it is
\* exactly half
RoundNearestEven(exp, kept, up, tie) ==
  IF up \/ (tie /\ kept[Precision] = 1)
    THEN The({ IF Len(inc) > Precision
                 THEN [kind |-> "num", exp |-> exp + 1, bits |-> SubSeq(inc, 1, Precision)]
                 ELSE [kind |-> "num", exp |-> exp, bits |-> inc]
                 : inc \in {SubSeq(Increment(kept), 1, Len(Increment(kept)))} })
    ELSE [kind |-> "num", exp |-> exp, bits |-> kept]

\* num / den scaled by a power of two into [1, 2)
RECURSIVE Normalize(_, _, _)
Normalize(num, den, exp) ==
  IF num >= 2 * den THEN Normalize(num, 2 * den, exp + 1)
  ELSE IF num < den THEN Normalize(2 * num, den, exp - 1)
  ELSE [num |-> num, den |-> den, exp |-> exp]

\* 2^k modulo den
RECURSIVE PowerOfTwoMod(_, _)
PowerOfTwoMod(k, den) ==
  IF k = 0 THEN 1 % den
  ELSE The({ IF k % 2 = 0 THEN (h * h) % den ELSE (2 * h * h) % den
               : h \in {PowerOfTwoMod(k \div 2, den)} })

\* what is left of num * 2^k after taking out the multiples of den
Remainder(num, den, k) == ((num % den) * PowerOfTwoMod(k, den)) % den

\* the first Precision bits of num / den, a number in [1, 2)
QuotientBits(num, den) ==
  SubSeq([i \in 1..Precision |->
            IF i = 1 THEN 1 ELSE (2 * Remainder(num, den, i - 2)) \div den],
         1, Precision)

\* the double nearest to n / d, for integers n >= 0 and d > 0
Quotient(n, d) ==
  IF n = 0
    THEN Zero
    ELSE The({ The({ RoundNearestEven(nm.exp, bits, rest > nm.den, rest = nm.den)
                       : bits \in {QuotientBits(nm.num, nm.den)},
                         rest \in {2 * Remainder(nm.num, nm.den, Precision - 1)} })
                 : nm \in {Normalize(n, d, 0)} })

\* the carry into place i when the bit strings a and b are added
Carry(a, b, i) ==
  \E j \in (i + 1)..Len(a) :
     /\ a[j] + b[j] = 2
     /\ \A k \in (i + 1)..(j - 1) : a[k] + b[k] = 1

BitOf(c) == IF c THEN 1 ELSE 0

\* a + b of two bit strings of one length, one bit longer on overflow
AddBits(a, b) ==
  LET sum == [i \in 1..Len(a) |-> (a[i] + b[i] + BitOf(Carry(a, b, i))) % 2]
  IN  IF Carry(a, b, 0) THEN <<1>> \o sum ELSE SubSeq(sum, 1, Len(a))

\* bits moved n places to the right in a string n longer
Shifted(bits, n) ==
  SubSeq([i \in 1..(Len(bits) + n) |-> IF i <= n THEN 0 ELSE bits[i - n]], 1, Len(bits) + n)

\* bits followed by n zeros
Padded(bits, n) ==
  SubSeq([i \in 1..(Len(bits) + n) |-> IF i <= Len(bits) THEN bits[i] ELSE 0], 1, Len(bits) + n)

\* x + y for positive x, y with x.exp >= y.exp: the exact sum, rounded
AddAligned(x, y) ==
  LET d == x.exp - y.exp
  IN  The({ LET exp == IF Len(sum) > Precision + d THEN x.exp + 1 ELSE x.exp
                rest == {i \in (Precision + 1)..Len(sum) : sum[i] = 1}
            IN  RoundNearestEven(exp, SubSeq(sum, 1, Precision),
                                 (Precision + 1) \in rest /\ rest # {Precision + 1},
                                 rest = {Precision + 1})
              : sum \in { The({ AddBits(a, b) : a \in {Padded(x.bits, d)},
                                               b \in {Shifted(y.bits, d)} }) } })

\* x + y of JavaScript, for the values above
Plus(x0, y0) ==
  The({ IF x.kind = "nan" \/ y.kind = "nan" THEN NaNWeight
        ELSE IF x.kind = "zero" THEN y
        ELSE IF y.kind = "zero" THEN x
        ELSE IF x.exp >= y.exp THEN AddAligned(x, y) ELSE AddAligned(y, x)
          : x \in {x0}, y \in {y0} })

\* x < y, neither being NaN
Less(x0, y0) ==
  \E x \in {x0}, y \in {y0} :
     IF y.kind = "zero" THEN FALSE
     ELSE IF x.kind = "zero" THEN TRUE
     ELSE IF x.exp # y.exp THEN x.exp < y.exp
     ELSE \E i \in 1..Precision :
             /\ x.bits[i] < y.bits[i]
             /\ \A j \in 1..(i - 1) : x.bits[j] = y.bits[j]

\* the literal 0.1
Tenth == Quotient(1, 10)

\* the number a JSON text of g / 1000 kilograms is read as
Kilograms(g) == Quotient(g, 1000)

\* --------------------------------------------------------------- records
\* POST body of /apps/xbs-shipment (the fields the handlers look at)
PudoIds == {Undefined, "H4045"}
ProductLists == {"absent", "empty", "ok", "noQuantity"}
Services == {Undefined, "CLLCT", "TRCK"}
\* weight of the body: absent, 0 or 0.5 (kilograms)
Weights == {NoWeight, Zero, Kilograms(500)}

Bodies ==
  [pudoLocationId : PudoIds, hasConsignee : BOOLEAN, products : ProductLists,
   weight : Weights, hasValue : BOOLEAN, hasConsignor : BOOLEAN,
   service : Services, consigneeCountry : {FR}]

NoBody ==
  [pudoLocationId |-> Undefined, hasConsignee |-> FALSE, products |-> "absent",
   weight |-> NoWeight, hasValue |-> FALSE, hasConsignor |-> FALSE,
   service |-> Undefined, consigneeCountry |-> <<>>]

NoCountry == [kind |-> "absent", val |-> <<>>]

NoReq ==
  [endpoint |-> "none", country |-> NoCountry, zip |-> Undefined,
   city |-> Undefined, body |-> NoBody, orderNumber |-> Undefined]

\* body of the POST to the aggregator
NoOut ==
  [Command |-> "none", Country |-> <<>>, Zip |-> Undefined, City |-> Undefined,
   ShowTemporaryOutOfService |-> Undefined, Service |-> Undefined,
   PudoLocationId |-> Undefined, ConsigneePudoLocationId |-> Undefined,
   ConsigneeCountry |-> <<>>]

\* the aggregator's HTTP reply: ok is apiRes.ok, json says whether the body
\* parses; ErrorLevel NoErrorLevel is a body without the field
NoErrorLevel == -1
ErrorLevels == {0, 1, NoErrorLevel}
ErrorTexts == {Undefined, "Address corrected"}
TrackingNumbers == {Undefined, "", "TN123"}
ShipmentCarriers == {Undefined, "InPost"}

NoReply ==
  [ok |-> FALSE, json |-> FALSE, ErrorLevel |-> NoErrorLevel, Error |-> Undefined,
   hasLocation |-> FALSE, Location |-> <<>>, hasShipment |-> FALSE,
   TrackingNumber |-> Undefined, Carrier |-> Undefined, hasServices |-> FALSE]

HttpFailure == [NoReply EXCEPT !.ok = FALSE]
MalformedBody == [NoReply EXCEPT !.ok = TRUE, !.json = FALSE]

PudoReplies ==
  {HttpFailure, MalformedBody}
    \cup {[NoReply EXCEPT !.ok = TRUE, !.json = TRUE, !.ErrorLevel = e, !.Error = t]
            : e \in ErrorLevels, t \in ErrorTexts}
    \cup {[NoReply EXCEPT !.ok = TRUE, !.json = TRUE, !.ErrorLevel = e, !.Error = t,
                          !.hasLocation = TRUE, !.Location = MkPoints(cs)]
            : e \in ErrorLevels, t \in ErrorTexts, cs \in PointLists}

ShipmentReplies ==
  {HttpFailure, MalformedBody}
    \cup {[NoReply EXCEPT !.ok = TRUE, !.json = TRUE, !.ErrorLevel = e, !.Error = t]
            : e \in ErrorLevels, t \in ErrorTexts}
    \cup {[NoReply EXCEPT !.ok = TRUE, !.json = TRUE, !.ErrorLevel = e, !.Error = t,
                          !.hasShipment = TRUE, !.TrackingNumber = n, !.Carrier = c]
            : e \in ErrorLevels, t \in ErrorTexts, n \in TrackingNumbers,
              c \in ShipmentCarriers}

\* replies to GetServices: with or without the Services object
ServicesReplies ==
  {HttpFailure, MalformedBody}
    \cup {[NoReply EXCEPT !.ok = TRUE, !.json = TRUE, !.ErrorLevel = e, !.Error = t,
                          !.hasServices = h]
            : e \in ErrorLevels, t \in ErrorTexts, h \in BOOLEAN}

\* the JSON response to the inbound request; status 0 is "no response"
NoCount == -1

NoResp ==
  [status |-> 0, success |-> Undefined, error |-> Undefined,
   hasLocations |-> FALSE, locations |-> <<>>, totalFound |-> NoCount,
   filtered |-> NoCount, trackingNumber |-> Undefined, warning |-> Undefined,
   carrier |-> Undefined, country |-> <<>>, needsPudoSelection |-> Undefined,
   health |-> Undefined, request |-> NoOut, data |-> NoReply]

BadRequest(msg) == [NoResp EXCEPT !.status = 400, !.error = msg]

\* res.status(500).json({ success: false, error: err.message })
ServerError(msg) == [NoResp EXCEPT !.status = 500, !.success = "false", !.error = msg]

\* part_002: res.status(500).json({ error: err.message })
ServerErrorLegacy(msg) == [NoResp EXCEPT !.status = 500, !.error = msg]

\* ------------------------------------------------------- carrier filter
\* a variant of the callback that also drops points without a Carrier for
\* countries that have no contracted carrier
KeepPointNeedsCarrier(country, loc) ==
  LET carrier == IF loc.Carrier.has THEN loc.Carrier.val ELSE <<>>
  IN  IF ToUpperCase(country) = FR
        THEN Includes(ToLowerCase(carrier), FragColisPrive)
        ELSE IF ToUpperCase(country) = PL
               THEN Includes(ToLowerCase(carrier), FragInpost)
               ELSE loc.Carrier.has

\* the callback of points.filter(...) in the lookup handler
KeepPoint(country, loc) ==
  LET carrier == IF loc.Carrier.has THEN loc.Carrier.val ELSE <<>>
  IN  IF ToUpperCase(country) = FR
        THEN Includes(ToLowerCase(carrier), FragColisPrive)
        ELSE IF ToUpperCase(country) = PL
               THEN Includes(ToLowerCase(carrier), FragInpost)
               ELSE TRUE

\* part_002: loc.Carrier?.includes("Colis Prive") etc.
KeepPointLegacy(country, loc) ==
  IF ToUpperCase(country) = FR
    THEN loc.Carrier.has /\ Includes(loc.Carrier.val, FragColisPriveLegacy)
    ELSE IF ToUpperCase(country) = PL
           THEN loc.Carrier.has /\ Includes(loc.Carrier.val, FragInPostLegacy)
           ELSE TRUE

CarrierFilter(v, country, pts) ==
  IF v = "p002"
    THEN SelectSeq(pts, LAMBDA loc : KeepPointLegacy(country, loc))
    ELSE SelectSeq(pts, LAMBDA loc : KeepPoint(country, loc))

\* filtered.map(loc => ({ id: loc.Id, ..., carrier: loc.Carrier, ... }))
Reshape(pts) == [i \in 1..Len(pts) |-> [id |-> pts[i].Id, carrier |-> pts[i].Carrier]]

\* a coordinate as the aggregator's JSON carries it: a number, a string of
\* digits, or nothing; val is the value in degrees
JsonNumber(n) == [type |-> "number", val |-> n]
JsonString(n) == [type |-> "string", val |-> n]
NoCoordinate == [type |-> "undefined", val |-> 0]
CoordinateValues == {JsonNumber(48), JsonNumber(2), JsonString(48), NoCoordinate}

\* a point of the aggregator's reply and the coordinates of its reshaped form
NoPlace ==
  [Latitude |-> NoCoordinate, Longitude |-> NoCoordinate, reshaped |-> FALSE,
   latitude |-> NoCoordinate, longitude |-> NoCoordinate]

\* latitude: loc.Latitude, longitude: loc.Longitude
ReshapeCoordinates(loc) ==
  [loc EXCEPT !.reshaped = TRUE, !.latitude = loc.Latitude, !.longitude = loc.Longitude]

\* ------------------------------------------------------ lookup handler
\* a variant that forgets that IT needs a city
UseSpecificLocationZipOnly(q) == q.zip # Undefined

\* zip && (country.toUpperCase() === 'IT' ? city : true)
UseSpecificLocation(q) ==
  /\ q.zip # Undefined
  /\ (ToUpperCase(q.country.val) = IT => q.city # Undefined)

LookupRequestBody(v, q) ==
  LET up == ToUpperCase(q.country.val)
      cityIT == IF up = IT /\ q.city # Undefined THEN q.city ELSE Undefined
  IN  CASE v = "p002" ->
             [NoOut EXCEPT !.Command = "GetLocationsDaily", !.Country = up]
        [] v = "p000" ->
             [NoOut EXCEPT !.Command = "GetLocations", !.Country = up,
                           !.Zip = q.zip, !.City = cityIT]
        [] OTHER ->
             IF UseSpecificLocation(q)
               THEN [NoOut EXCEPT !.Command = "GetLocations", !.Country = up,
                                  !.Zip = q.zip, !.City = cityIT]
               ELSE [NoOut EXCEPT !.Command = "GetLocationsDaily", !.Country = up,
                                  !.ShowTemporaryOutOfService = "false"]

\* a variant of the handler without the check of the country parameter
LookupStartUnchecked(v, q) ==
  [do |-> "send", out |-> LookupRequestBody(v, q), resp |-> NoResp]

\* a lookup served from what an earlier lookup for the same country and
\* narrowing returned, while that answer is still at hand
LookupStartCached(v, q) ==
  LET hits == {j \in DOMAIN inflight :
                 /\ inflight[j].pc = "responded"
                 /\ inflight[j].req = q
                 /\ inflight[j].resp.success = "true"}
  IN  IF hits # {}
        THEN [do |-> "respond", out |-> NoOut, resp |-> inflight[CHOOSE j \in hits : TRUE].resp]
        ELSE [do |-> "send", out |-> LookupRequestBody(v, q), resp |-> NoResp]

\* What the handler does before its first await:
\*   "respond" (with resp), "send" (with out) or "throw" (rejected promise,
\*   the request is never answered)
LookupStart(v, q) ==
  CASE q.country.kind = "absent" ->
         [do |-> "respond", out |-> NoOut,
          resp |-> BadRequest("Country query param is required")]
    [] q.country.kind = "array" ->
         \* country.toUpperCase is not a function
         IF v = "p002"
           THEN [do |-> "respond", out |-> NoOut,
                 resp |-> ServerErrorLegacy("TypeError")]
           ELSE [do |-> "throw", out |-> NoOut, resp |-> NoResp]
    [] OTHER ->
         [do |-> "send", out |-> LookupRequestBody(v, q), resp |-> NoResp]

\* a variant of the lookup response that reports the retained count as totalFound
LookupSuccessCountsRetained(country, pts, locations) ==
  [NoResp EXCEPT !.status = 200, !.success = "true", !.hasLocations = TRUE,
                 !.country = ToUpperCase(country),
                 !.locations = locations, !.totalFound = Len(locations),
                 !.filtered = Len(locations)]

\* res.json({ success: true, country: country.toUpperCase(), totalFound,
\*            filtered, locations })
LookupSuccess(country, pts, locations) ==
  [NoResp EXCEPT !.status = 200, !.success = "true", !.hasLocations = TRUE,
                 !.country = ToUpperCase(country),
                 !.locations = locations, !.totalFound = Len(pts),
                 !.filtered = Len(locations)]

\* the lookup's catch:
\* res.status(500).json({ success: false, error, country: country.toUpperCase() })
LookupError(msg, country) ==
  [NoResp EXCEPT !.status = 500, !.success = "false", !.error = msg,
                 !.country = ToUpperCase(country)]

\* What the handler does with the aggregator's reply
LookupFinish(v, q, r) ==
  LET pts == IF r.hasLocation THEN r.Location ELSE <<>>
      flt == CarrierFilter(v, q.country.val, pts)
      locations == Reshape(flt)
      none == [ran |-> FALSE, points |-> <<>>, filtered |-> <<>>]
      ran == [ran |-> TRUE, points |-> pts, filtered |-> flt]
  IN  IF v = "p002"
        THEN CASE ~r.ok ->
                    [locals |-> none, resp |-> ServerErrorLegacy("XBS responded")]
               [] ~r.json ->
                    [locals |-> none, resp |-> ServerErrorLegacy("invalid json")]
               [] OTHER ->
                    \* springGetLocations is not defined
                    [locals |-> ran, resp |-> ServerErrorLegacy("ReferenceError")]
        ELSE CASE ~r.ok ->
                    [locals |-> none,
                     resp |-> LookupError("XBS API responded with status", q.country.val)]
               [] ~r.json ->
                    [locals |-> none, resp |-> LookupError("invalid json", q.country.val)]
               [] r.ErrorLevel # 0 ->
                    [locals |-> none, resp |-> LookupError("XBS API Error", q.country.val)]
               [] OTHER ->
                    [locals |-> ran,
                     resp |-> LookupSuccess(q.country.val, pts, locations)]

\* ---------------------------------------------------- shipment handler
\* JavaScript truthiness of the body fields
Falsy(x) == x = Undefined \/ x = ""

\* !weight
NoWeightGiven(b) == b.weight.kind \in {"absent", "nan", "zero"}

\* service = "CLLCT" (destructuring default)
ServiceOf(b) == IF b.service = Undefined THEN "CLLCT" ELSE b.service

\* the required-field checks; "" when the body passes them
MissingFields(v, b) ==
  IF v \in {"server", "p001"}
    THEN IF Falsy(b.pudoLocationId) \/ ~b.hasConsignee \/ b.products = "absent"
              \/ NoWeightGiven(b)
           THEN "Missing required fields: pudoLocationId, consigneeAddress, products, weight"
           ELSE ""
    ELSE IF ~b.hasConsignee \/ b.products = "absent" \/ NoWeightGiven(b)
           THEN "Missing required fields: consigneeAddress, products, weight"
           ELSE IF v = "p000" /\ Falsy(b.pudoLocationId)
                  THEN "PudoLocationId is required for CLLCT service"
                  ELSE ""

\* building requestBody dereferences fields the checks did not test
BuildThrows(v, b) ==
  \/ ~b.hasValue                                  \* value.toString()
  \/ v = "p000" /\ ~b.hasConsignor                \* consignorAddress.Name
  \/ v = "p000" /\ b.products = "noQuantity"      \* product.Quantity.toString()

ShipmentRequestBody(v, b) ==
  CASE v = "p000" ->
         [NoOut EXCEPT !.Command = "OrderShipment", !.Service = "CLLCT",
                       !.PudoLocationId = b.pudoLocationId,
                       !.ConsigneePudoLocationId = b.pudoLocationId,
                       !.ConsigneeCountry = b.consigneeCountry]
    [] v = "p003" ->
         [NoOut EXCEPT !.Command = "OrderShipment", !.Service = ServiceOf(b),
                       !.PudoLocationId =
                          IF Falsy(b.pudoLocationId) THEN Undefined ELSE b.pudoLocationId,
                       !.ConsigneeCountry = b.consigneeCountry]
    [] OTHER ->
         [NoOut EXCEPT !.Command = "OrderShipment", !.Service = ServiceOf(b),
                       !.ConsigneePudoLocationId = b.pudoLocationId,
                       !.ConsigneeCountry = b.consigneeCountry]

\* app.post("/apps/xbs-shipment") up to the fetch
ShipmentStart(v, body) ==
  The({ CASE missing # "" ->
               [do |-> "respond", out |-> NoOut,
                resp |-> IF v \in {"server", "p001"}
                           THEN BadRequest(missing)
                           ELSE ServerError(missing)]
          [] BuildThrows(v, b) ->
               [do |-> "respond", out |-> NoOut, resp |-> ServerError("TypeError")]
          [] OTHER ->
               [do |-> "send", out |-> ShipmentRequestBody(v, b), resp |-> NoResp]
          : <<b, missing>> \in {<<body, MissingFields(v, body)>>} })

Success(tn, warning) ==
  [NoResp EXCEPT !.status = 200, !.success = "true", !.trackingNumber = tn,
                 !.warning = warning]

\* app.post("/apps/xbs-shipment") from the aggregator's reply on
ShipmentFinish(v, r) ==
  CASE ~r.ok -> ServerError("XBS API responded with status")
    [] ~r.json -> ServerError("invalid json")
    [] v = "p000" /\ r.hasShipment /\ ~Falsy(r.TrackingNumber) ->
         [Success(r.TrackingNumber, r.Error) EXCEPT !.carrier = r.Carrier]
    [] r.ErrorLevel # 0 -> ServerError("XBS API Error")
    [] ~r.hasShipment -> ServerError("TypeError")       \* data.Shipment.TrackingNumber
    [] OTHER -> [Success(r.TrackingNumber, Undefined) EXCEPT !.carrier = r.Carrier]

\* ------------------------------------------------ tracking and services
\* app.get("/apps/xbs-track/:trackingNumber") up to its fetch
TrackingStart ==
  [do |-> "send", out |-> [NoOut EXCEPT !.Command = "TrackShipment"], resp |-> NoResp]

\* app.get("/apps/xbs-track/:trackingNumber") from the aggregator's reply on
TrackingFinish(r) ==
  CASE ~r.ok -> ServerError("XBS API responded with status")
    [] ~r.json -> ServerError("invalid json")
    [] ~r.hasShipment -> ServerError("TypeError")       \* data.Shipment.TrackingNumber
    [] OTHER -> [NoResp EXCEPT !.status = 200, !.success = "true",
                               !.trackingNumber = r.TrackingNumber, !.carrier = r.Carrier]

\* app.get("/apps/xbs-services") up to its fetch
ServicesStart ==
  [do |-> "send", out |-> [NoOut EXCEPT !.Command = "GetServices"], resp |-> NoResp]

\* app.get("/apps/xbs-services") from the aggregator's reply on
ServicesFinish(r) ==
  CASE ~r.ok -> ServerError("XBS API responded with status")
    [] ~r.json -> ServerError("invalid json")
    [] ~r.hasServices -> ServerError("TypeError")       \* data.Services.AllowedServices
    [] OTHER -> [NoResp EXCEPT !.status = 200, !.success = "true"]

\* ----------------------------------------- health, order check, test routes
\* app.get("/health"): res.json({ status: "ok" })
HealthResponse == [NoResp EXCEPT !.status = 200, !.health = "ok"]

\* app.get("/apps/check-inpost-order/:orderId"):
\* res.json({ needsPudoSelection: true, orderId })
CheckOrderResponse == [NoResp EXCEPT !.status = 200, !.needsPudoSelection = "true"]

\* the fixed request of app.get("/apps/test-pudo-shipment")
TestPudoRequestBody ==
  [NoOut EXCEPT !.Command = "OrderShipment", !.Service = "CLLCT",
                !.PudoLocationId = "H4045", !.ConsigneePudoLocationId = "H4045",
                !.ConsigneeCountry = FR]

TestPudoStart == [do |-> "send", out |-> TestPudoRequestBody, resp |-> NoResp]

\* res.json({ success: data.ErrorLevel === 0, request: requestBody, response: data })
TestPudoFinish(r) ==
  CASE ~r.ok -> ServerErrorLegacy("HTTP")
    [] ~r.json -> ServerErrorLegacy("invalid json")
    [] OTHER -> [NoResp EXCEPT !.status = 200,
                               !.success = IF r.ErrorLevel = 0 THEN "true" ELSE "false",
                               !.request = TestPudoRequestBody, !.data = r]

\* the fixed request of app.get("/apps/test-simple-shipment")
TestSimpleRequestBody ==
  [NoOut EXCEPT !.Command = "OrderShipment", !.Service = "TRCK",
                !.ConsigneeCountry = FR]

TestSimpleStart == [do |-> "send", out |-> TestSimpleRequestBody, resp |-> NoResp]

\* res.json(data)
TestSimpleFinish(r) ==
  CASE ~r.ok -> ServerErrorLegacy("HTTP")
    [] ~r.json -> ServerErrorLegacy("invalid json")
    [] OTHER -> [NoResp EXCEPT !.status = 200, !.data = r]

\* ---------------------------------------------------------------- orders
\* titles of shipping lines; the classifier looks inside them
TitleInPost == <<"I", "n", "P", "o", "s", "t", " ", "z", " ", "H", "i", "s", "z", "p", "a", "n", "i", "i">>
TitleFrance == <<"F", "r", "a", "n", "c", "e", "-", "C", "o", "n", "t", "i", "n", "e", "n", "t", " ", "(", "P", "o", "i", "n", "t", " ", "P", "a", "c", "k", " ", "e", "t", " ", "L", "o", "c", "k", "e", "r", ")">>
TitleFranceContinent == <<"F", "r", "a", "n", "c", "e", "-", "C", "o", "n", "t", "i", "n", "e", "n", "t">>
TitleEnvoiInPost == <<"E", "n", "v", "o", "i", " ", "I", "n", "P", "o", "s", "t", " ", "z", " ", "H", "i", "s", "z", "p", "a", "n", "i", "i", " ", "4", "8", "h">>
TitleInPostLowerCase == <<"i", "n", "p", "o", "s", "t", " ", "z", " ", "h", "i", "s", "z", "p", "a", "n", "i", "i">>
TitlePointsDeRetrait == <<"P", "o", "i", "n", "t", "s", " ", "d", "e", " ", "r", "e", "t", "r", "a", "i", "t", " ", "e", "n", " ", "F", "r", "a", "n", "c", "e", " ", "(", "c", "h", "o", "i", "x", " ", "d", "u", " ", "l", "i", "e", "u", " ", "p", "a", "r", " ", "e", "-", "m", "a", "i", "l", ")">>

\* a shipping line is its title, [has |-> FALSE] when the line has no title
NoTitle == [has |-> FALSE, val |-> <<>>]
Title(t) == [has |-> TRUE, val |-> t]
ShippingLines ==
  {NoTitle, Title(TitleFrance), Title(TitleFranceContinent),
   Title(TitleEnvoiInPost), Title(TitleInPostLowerCase), Title(TitlePointsDeRetrait)}

\* a line item is its grams and quantity; Missing is an absent property
Missing == -1
Item(g, q) == [grams |-> g, quantity |-> q]
LineItems ==
  {Item(10, 1), Item(30, 3), Item(200, 1), Item(500, 2), Item(Missing, 1), Item(500, Missing)}

SeqsUpTo(S, n) == UNION {[1..k -> S] : k \in 0..n}

\* the order as the handlers hold it; kind tells where it came from
NoOrder ==
  [kind |-> "none", order_number |-> Undefined, hasLines |-> FALSE,
   shipping_lines |-> <<>>, line_items |-> <<>>]

\* what the order platform may list for an order: every order with short lists
Orders ==
  {[NoOrder EXCEPT !.kind = "platform", !.order_number = "1001", !.hasLines = h,
                   !.shipping_lines = ls, !.line_items = is]
     : h \in BOOLEAN, ls \in SeqsUpTo(ShippingLines, MaxLines),
       is \in SeqsUpTo(LineItems, MaxItems)}

\* ------------------------------------------------------ weight calculator
\* item.grams * item.quantity / 1000: NaN as soon as one of them is
\* undefined, else the product (exact) divided by 1000 and rounded
ItemKilograms(item) ==
  IF item.grams = Missing \/ item.quantity = Missing
    THEN NaNWeight
    ELSE Quotient(item.grams * item.quantity, 1000)

\* total + (item.grams * item.quantity / 1000), the callback of reduce
AddWeight(total, item) == Plus(total, ItemKilograms(item))

RECURSIVE Reduce(_, _)
Reduce(lineItems, total) ==
  IF lineItems = <<>>
    THEN total
    ELSE Reduce(Tail(lineItems), AddWeight(total, Head(lineItems)))

\* function calculateWeight(lineItems)
calculateWeight(lineItems) == Reduce(lineItems, Zero)

\* a floor that lets every weight through
MaxFloorAbsent(w0) == w0

\* Math.max(0.1, w): NaN when w is NaN
MaxFloor(w0) ==
  The({ IF w.kind = "nan" THEN NaNWeight ELSE IF Less(w, Tenth) THEN Tenth ELSE w
          : w \in {w0} })

\* shipmentData.weight of the completion handler
DerivedWeight(v, lineItems) ==
  IF v = "p000" THEN MaxFloor(calculateWeight(lineItems)) ELSE calculateWeight(lineItems)

\* ------------------------------------------------ shipping-method classifier
NoCountryCode == <<>>

\* the callback of shippingLines.find
IsPickupLine(line) ==
  LET title == IF line.has THEN line.val ELSE <<>>
  IN  Includes(title, TitleInPost) \/ Includes(title, TitleFrance)

RECURSIVE Find(_)
\* shippingLines.find(...): <<the line>>, or <<>> for undefined
Find(shippingLines) ==
  IF shippingLines = <<>>
    THEN <<>>
    ELSE IF IsPickupLine(Head(shippingLines))
           THEN <<Head(shippingLines)>>
           ELSE Find(Tail(shippingLines))

\* a classifier that looks for the Polish method in any line first
getInPostCountryAnyLine(order) ==
  LET shippingLines == IF order.hasLines THEN order.shipping_lines ELSE <<>>
      titles == {IF shippingLines[i].has THEN shippingLines[i].val ELSE <<>>
                   : i \in 1..Len(shippingLines)}
  IN  IF \E t \in titles : Includes(t, TitleInPost)
        THEN PL
        ELSE IF \E t \in titles : Includes(t, TitleFrance) THEN FR ELSE NoCountryCode

\* function getInPostCountry(order)
getInPostCountry(order) ==
  LET shippingLines == IF order.hasLines THEN order.shipping_lines ELSE <<>>
      found == Find(shippingLines)
  IN  IF found = <<>>
        THEN NoCountryCode
        ELSE IF Includes(found[1].val, TitleInPost)
               THEN PL
               ELSE IF Includes(found[1].val, TitleFranceContinent)
                      THEN FR
                      ELSE NoCountryCode

\* ---------------------------------------------------- order data provider
\* the order-platform's answer to the orders.json read
PlatformOrders ==
  {[NoOrder EXCEPT !.kind = "platform", !.order_number = "1001", !.hasLines = h,
                   !.shipping_lines = ls, !.line_items = is]
     : h \in BOOLEAN,
       ls \in {<<Title(TitleFrance)>>, <<Title(TitlePointsDeRetrait), Title(TitleEnvoiInPost)>>,
               <<Title(TitleInPostLowerCase)>>},
       is \in {<<>>, <<Item(500, 2)>>, <<Item(10, 1)>>, <<Item(Missing, 1)>>,
               <<Item(500, 2), Item(500, Missing)>>}}

\* rejected: fetch throws; status: !response.ok; malformed: response.json()
\* throws; noOrders: data.orders missing or empty
ShopFailures == {"rejected", "status", "malformed", "noOrders"}
ShopReplies ==
  {[kind |-> k, order |-> NoOrder] : k \in ShopFailures}
    \cup {[kind |-> "order", order |-> o] : o \in PlatformOrders}

\* SHOPIFY_SHOP_DOMAIN or SHOPIFY_ACCESS_TOKEN is not set
Unconfigured == [kind |-> "unconfigured", order |-> NoOrder]

\* the mock order of server.js and part_003
MockOrder(orderNumber) ==
  [NoOrder EXCEPT !.kind = "mock", !.order_number = orderNumber, !.hasLines = TRUE,
                  !.shipping_lines = <<Title(TitleFrance)>>,
                  !.line_items = <<Item(500, 1)>>]

\* the order part_000 falls back to
FallbackOrder(orderNumber) ==
  [NoOrder EXCEPT !.kind = "fallback", !.order_number = orderNumber, !.hasLines = TRUE,
                  !.shipping_lines = <<Title(TitlePointsDeRetrait)>>,
                  !.line_items = <<Item(500, 1)>>]

\* a provider that hands the failure on as "no order"
getShopifyOrderPropagating(v, orderNumber, r) ==
  IF v # "p000"
    THEN MockOrder(orderNumber)
    ELSE IF r.kind = "order"
           THEN [r.order EXCEPT !.kind = "real", !.hasLines = TRUE,
                                !.shipping_lines =
                                   IF r.order.hasLines THEN r.order.shipping_lines ELSE <<>>]
           ELSE NoOrder

\* async function getShopifyOrder(orderNumber), r being what the platform did
getShopifyOrder(v, orderNumber, r) ==
  IF v # "p000"
    THEN MockOrder(orderNumber)
    ELSE IF r.kind = "order"
           THEN [r.order EXCEPT !.kind = "real", !.hasLines = TRUE,
                                !.shipping_lines =
                                   IF r.order.hasLines THEN r.order.shipping_lines ELSE <<>>]
           ELSE FallbackOrder(orderNumber)

\* the orders a completion handler can hold, that is what getShopifyOrder
\* returns: on part_000 the platform's order (shipping_lines || [] in place
\* of a missing list) or the fallback order when the platform cannot be
\* read, on server.js and part_003 the one mock order
OrdersHeld(v) ==
  {getShopifyOrder(v, "1001", Unconfigured)}
    \cup IF v = "p000"
           THEN {getShopifyOrder(v, "1001", [kind |-> "order", order |-> o]) : o \in Orders}
           ELSE {}

\* ------------------------------------------------------ order completion
OrderNumbers == {Undefined, "1001"}
\* req.body.country: absent, "", "PL", "DE"
CompletionCountries ==
  {NoCountry} \cup {[kind |-> "string", val |-> c] : c \in {<<>>, PL, <<"D","E">>}}

\* res.status(400).json({ success: false, error: ... })
ClientError(msg) == [NoResp EXCEPT !.status = 400, !.success = "false", !.error = msg]

\* res.status(404).json({ success: false, error: 'Order not found' })
NotFound == [NoResp EXCEPT !.status = 404, !.success = "false", !.error = "Order not found"]

\* checks that let a request through whatever it lacks
CompletionCheckLax(q) == NoResp

\* the checks of req.body; NoResp when the request passes them
CompletionCheck(q) ==
  IF Falsy(q.orderNumber)
    THEN ClientError("Order number is required")
    ELSE IF Falsy(q.body.pudoLocationId)
           THEN ClientError("PUDO location must be selected")
           ELSE NoResp

\* a detection that lets the classifier overrule the caller
detectedCountryClassifierFirst(q, order) ==
  IF getInPostCountry(order) # NoCountryCode
    THEN getInPostCountry(order)
    ELSE IF q.country.kind = "string" /\ q.country.val # <<>>
           THEN q.country.val
           ELSE FR

\* country || getInPostCountry(orderData) || 'FR'
detectedCountry(q, order) ==
  IF q.country.kind = "string" /\ q.country.val # <<>>
    THEN q.country.val
    ELSE IF getInPostCountry(order) # NoCountryCode
           THEN getInPostCountry(order)
           ELSE FR

\* orderData.line_items.map(...), as the builders see it
ProductsOf(lineItems) ==
  IF lineItems = <<>>
    THEN "empty"
    ELSE IF \E i \in 1..Len(lineItems) : lineItems[i].quantity = Missing
           THEN "noQuantity"
           ELSE "ok"

NoShipmentData == [has |-> FALSE, country |-> <<>>, body |-> NoBody]

\* const shipmentData = { ... }
ShipmentDataOf(v, q, order) ==
  [has |-> TRUE,
   country |-> detectedCountry(q, order),
   body |-> [NoBody EXCEPT !.pudoLocationId = q.body.pudoLocationId,
                           !.hasConsignee = TRUE,
                           !.products = ProductsOf(order.line_items),
                           !.weight = DerivedWeight(v, order.line_items),
                           !.hasValue = TRUE,
                           !.hasConsignor = TRUE,
                           !.consigneeCountry = detectedCountry(q, order)]]

\* server.js posts shipmentData to its own /apps/xbs-shipment
UsesOwnEndpoint(v) == v = "server"

\* the handler from the order on, up to its next await: server.js sends the
\* request to its own /apps/xbs-shipment ("self"), the others call
\* createXBSShipment; a failure there is thrown and answered with 500
CompletionStart(v, q, order) ==
  IF order.kind = "none"
    THEN [do |-> "respond", out |-> NoOut, resp |-> NotFound]
    ELSE IF UsesOwnEndpoint(v)
    THEN [do |-> "self", out |-> NoOut, resp |-> NoResp]
    ELSE The({ IF inner.do = "send"
                 THEN inner
                 ELSE [do |-> "respond", out |-> NoOut, resp |-> ServerError(inner.resp.error)]
                 : inner \in {ShipmentStart(v, ShipmentDataOf(v, q, order).body)} })

\* the handler from the aggregator's reply on
CompletionFinish(v, data, r) ==
  LET result == ShipmentFinish(v, r)
  IN  IF result.success = "true"
        THEN [NoResp EXCEPT !.status = 200, !.success = "true",
                            !.trackingNumber = result.trackingNumber,
                            !.carrier = result.carrier, !.country = data.country]
        ELSE ServerError(result.error)

\* server.js: const result = await response.json(), the answer of its own
\* /apps/xbs-shipment; success is relayed, anything else thrown
CompletionRelay(data, result) ==
  IF result.success = "true"
    THEN [NoResp EXCEPT !.status = 200, !.success = "true",
                        !.trackingNumber = result.trackingNumber,
                        !.carrier = result.carrier, !.country = data.country]
    ELSE ServerError(result.error)

\* -------------------------------------------------------- state machine
\* what the derivations returned, when they are applied on their own
NoDerived ==
  [classified |-> FALSE, inPostCountry |-> <<>>, weighed |-> FALSE, weight |-> Zero]

\* one request in flight, when several are handled at the same time: its
\* position, the request, what the handler sent and got, and its response
NoShop == [kind |-> "none", order |-> NoOrder]
NoExchange ==
  [pc |-> "idle", req |-> NoReq, shop |-> NoShop, out |-> NoOut, calls |-> 0,
   shopCalls |-> 0, reply |-> NoReply, resp |-> NoResp, self |-> NoResp,
   loopback |-> "none"]
Slots == 1..MaxInFlight

\* the page before it is loaded; selectedLocation Undefined is null,
\* selectedCard is the index of the card with class 'selected' (0: none),
\* searches and pending count the fetches in flight, searchBodies and
\* completionBodies those of them whose response.json() is being read, sent
\* lists the bodies of the completion requests, shipments counts the
\* success:true answers
NoPage ==
  [loaded |-> FALSE, query |-> [kind |-> "absent", val |-> <<>>], country |-> <<>>,
   selectedLocation |-> Undefined, cards |-> <<>>, selectedCard |-> 0,
   confirmDisabled |-> TRUE, message |-> "hidden", searches |-> 0,
   searchCountry |-> <<>>, searchBodies |-> 0, pending |-> 0,
   completionBodies |-> 0, sent |-> <<>>, shipments |-> 0]

HasShipmentEndpoint(v) == v # "p002"
HasCompletionEndpoint(v) == v \in {"server", "p000", "p003"}
HasTrackingEndpoint(v) == v # "p002"
HasServicesEndpoint(v) == v # "p002"
HasCheckOrderEndpoint(v) == v \in {"server", "p000", "p003"}
HasTestPudoEndpoint(v) == v = "p000"
HasTestSimpleEndpoint(v) == v \in {"p000", "p003"}

Init ==
  /\ variant \in Variants
  /\ pc = "idle"
  /\ req = NoReq
  /\ outReq = NoOut
  /\ aggCalls = 0
  /\ reply = NoReply
  /\ filterRan = FALSE
  /\ points = <<>>
  /\ filtered = <<>>
  /\ resp = NoResp
  /\ shopCalls = 0
  /\ shopReply = "none"
  /\ orderData = NoOrder
  /\ shipmentData = NoShipmentData
  /\ derived = NoDerived
  /\ inflight = [i \in Slots |-> NoExchange]
  /\ place = NoPlace
  /\ page = NoPage
  /\ selfResp = NoResp

\* a handler that issues its aggregator request a second time
CallsOfRetrying(step) == IF step.do = "send" THEN 2 ELSE 0

\* aggregator requests a handler step issues: one fetch when it sends
CallsOf(step) == IF step.do = "send" THEN 1 ELSE 0

\* where a handler is after a run: at an await, answered, or dead
PcAfter(do) ==
  CASE do = "send" -> "awaiting"
    [] do = "respond" -> "responded"
    [] do = "read" -> "awaitingOrder"
    [] do = "self" -> "awaitingSelf"
    [] OTHER -> "unanswered"

\* once the fetch has resolved the handler awaits the body: apiRes.json()
\* after an ok status, apiRes.text() where createXBSShipment and the test
\* routes report an HTTP failure; the other handlers throw on !apiRes.ok
ReadsBody(v, q, r) ==
  \/ r.ok
  \/ /\ v \in {"p000", "p003"}
     /\ q.endpoint \in {"shipment", "complete", "testPudo", "testSimple"}

\* what is known of the aggregator's answer when the fetch resolves
Headers(ok) == IF ok THEN [NoReply EXCEPT !.ok = TRUE] ELSE HttpFailure

\* the bodies that may follow ok headers
Readable(replies) == {r \in replies : r.ok}

\* getShopifyOrder of part_000 throws on a rejected fetch and on !response.ok
\* before it reads the body
ShopHeadersFail(r) == r.kind \in {"rejected", "status"}

\* state that the handlers of one exchange never touch
asideVars == <<variant, derived, inflight, place, page>>

\* the handler's first synchronous run, up to its first await
Dispatch(step) ==
  /\ outReq' = step.out
  /\ resp' = step.resp
  /\ aggCalls' = CallsOf(step)
  /\ pc' = PcAfter(step.do)
  /\ reply' = NoReply
  /\ filterRan' = FALSE
  /\ points' = <<>>
  /\ filtered' = <<>>
  /\ selfResp' = NoResp
  /\ UNCHANGED asideVars

\* GET /apps/xbs-pudo arrives
ReceiveLookup ==
  /\ pc = "idle"
  /\ \E c \in Countries, z \in Zips, t \in Cities :
       /\ req' = [NoReq EXCEPT !.endpoint = "pudo", !.country = c, !.zip = z, !.city = t]
       /\ Dispatch(LookupStart(variant, req'))
  /\ UNCHANGED <<shopCalls, shopReply, orderData, shipmentData>>

\* POST /apps/xbs-shipment arrives
ReceiveShipment ==
  /\ pc = "idle"
  /\ HasShipmentEndpoint(variant)
  /\ \E b \in Bodies :
       /\ req' = [NoReq EXCEPT !.endpoint = "shipment", !.body = b]
       /\ Dispatch(ShipmentStart(variant, b))
  /\ UNCHANGED <<shopCalls, shopReply, orderData, shipmentData>>

\* the fetch of the aggregator request resolves: the status is known, the
\* body is not; answer(r) is what the handler does when it goes on with r
FetchResolves(answer(_)) ==
  /\ \E ok \in BOOLEAN :
       /\ reply' = Headers(ok)
       /\ IF ReadsBody(variant, req, Headers(ok))
            THEN /\ pc' = "reading"
                 /\ UNCHANGED <<filterRan, points, filtered, resp, selfResp>>
            ELSE answer(Headers(ok))
  /\ UNCHANGED <<req, outReq, aggCalls, shopCalls, shopReply, orderData, shipmentData>>
  /\ UNCHANGED asideVars

\* the body has been read: one of replies after ok headers, the error text
\* after an HTTP failure
BodyRead(answer(_), replies) ==
  /\ IF reply.ok
       THEN \E r \in Readable(replies) : reply' = r /\ answer(r)
       ELSE reply' = reply /\ answer(reply)
  /\ UNCHANGED <<req, outReq, aggCalls, shopCalls, shopReply, orderData, shipmentData>>
  /\ UNCHANGED asideVars

\* the lookup handler goes on with the aggregator's answer r
LookupAnswer(r) ==
  LET fin == LookupFinish(variant, req, r)
  IN  /\ filterRan' = fin.locals.ran
      /\ points' = fin.locals.points
      /\ filtered' = fin.locals.filtered
      /\ resp' = fin.resp
      /\ pc' = "responded"
      /\ UNCHANGED selfResp

\* the aggregator answers the lookup's fetch
LookupReply ==
  /\ pc = "awaiting"
  /\ req.endpoint = "pudo"
  /\ FetchResolves(LookupAnswer)

\* await apiRes.json() of the lookup
LookupBody ==
  /\ pc = "reading"
  /\ req.endpoint = "pudo"
  /\ BodyRead(LookupAnswer, PudoReplies)

\* the shipment handler goes on with the aggregator's answer r
ShipmentAnswer(r) ==
  /\ resp' = ShipmentFinish(variant, r)
  /\ pc' = "responded"
  /\ UNCHANGED <<filterRan, points, filtered, selfResp>>

\* the aggregator answers the shipment's fetch
ShipmentReply ==
  /\ pc = "awaiting"
  /\ req.endpoint = "shipment"
  /\ FetchResolves(ShipmentAnswer)

\* await apiRes.json() / apiRes.text() of the shipment
ShipmentBody ==
  /\ pc = "reading"
  /\ req.endpoint = "shipment"
  /\ BodyRead(ShipmentAnswer, ShipmentReplies)

\* POST /apps/complete-inpost-order arrives; configured says whether the
\* order-platform credentials are set
ReceiveCompletion ==
  /\ pc = "idle"
  /\ HasCompletionEndpoint(variant)
  /\ \E n \in OrderNumbers, p \in PudoIds, c \in CompletionCountries, configured \in BOOLEAN :
       /\ req' = [NoReq EXCEPT !.endpoint = "complete", !.orderNumber = n, !.country = c,
                               !.body = [NoBody EXCEPT !.pudoLocationId = p]]
       /\ LET check == CompletionCheck(req')
              order == getShopifyOrder(variant, n, Unconfigured)
          IN  CASE check # NoResp ->
                     /\ Dispatch([do |-> "respond", out |-> NoOut, resp |-> check])
                     /\ UNCHANGED <<shopCalls, shopReply, orderData, shipmentData>>
                [] check = NoResp /\ variant = "p000" /\ configured ->
                     /\ Dispatch([do |-> "read", out |-> NoOut, resp |-> NoResp])
                     /\ shopCalls' = 1
                     /\ UNCHANGED <<shopReply, orderData, shipmentData>>
                [] OTHER ->
                     /\ Dispatch(CompletionStart(variant, req', order))
                     /\ orderData' = order
                     /\ shipmentData' = ShipmentDataOf(variant, req', order)
                     /\ shopReply' = IF variant = "p000" THEN Unconfigured.kind ELSE "none"
                     /\ UNCHANGED shopCalls

\* getShopifyOrder of part_000 returns for the platform's answer r and the
\* handler goes on to createXBSShipment
OrderAnswer(r) ==
  LET order == getShopifyOrder(variant, req.orderNumber, r)
      step == CompletionStart(variant, req, order)
  IN  /\ shopReply' = r.kind
      /\ orderData' = order
      /\ shipmentData' = ShipmentDataOf(variant, req, order)
      /\ outReq' = step.out
      /\ resp' = step.resp
      /\ aggCalls' = CallsOf(step)
      /\ pc' = PcAfter(step.do)

\* the fetch of the order platform resolves or is rejected (part_000)
OrderReply ==
  /\ pc = "awaitingOrder"
  /\ \/ \E r \in {x \in ShopReplies : ShopHeadersFail(x)} : OrderAnswer(r)
     \/ /\ pc' = "readingOrder"
        /\ UNCHANGED <<shopReply, orderData, shipmentData, outReq, resp, aggCalls>>
  /\ UNCHANGED <<req, reply, filterRan, points, filtered, shopCalls, selfResp>>
  /\ UNCHANGED asideVars

\* await response.json() of the order platform's answer (part_000)
OrderBody ==
  /\ pc = "readingOrder"
  /\ \E r \in {x \in ShopReplies : ~ShopHeadersFail(x)} : OrderAnswer(r)
  /\ UNCHANGED <<req, reply, filterRan, points, filtered, shopCalls, selfResp>>
  /\ UNCHANGED asideVars

\* server.js: the request the completion handler posted to the server's own
\* /apps/xbs-shipment is dispatched to the shipment handler
SelfRequest ==
  /\ pc = "awaitingSelf"
  /\ LET step == ShipmentStart(variant, shipmentData.body)
     IN  /\ outReq' = step.out
         /\ aggCalls' = CallsOf(step)
         /\ selfResp' = step.resp
         /\ pc' = IF step.do = "send" THEN "awaiting" ELSE "selfAnswered"
  /\ UNCHANGED <<req, reply, filterRan, points, filtered, resp, shopCalls, shopReply,
                 orderData, shipmentData>>
  /\ UNCHANGED asideVars

\* createXBSShipment, or on server.js the server's own shipment handler, goes
\* on with the aggregator's answer r
CompletionAnswer(r) ==
  /\ IF UsesOwnEndpoint(variant)
       THEN /\ selfResp' = ShipmentFinish(variant, r)
            /\ pc' = IF resp = NoResp THEN "selfAnswered" ELSE "responded"
            /\ UNCHANGED resp
       ELSE /\ resp' = CompletionFinish(variant, shipmentData, r)
            /\ pc' = "responded"
            /\ UNCHANGED selfResp
  /\ UNCHANGED <<filterRan, points, filtered>>

\* the aggregator answers the completion's shipment request
CompletionReply ==
  /\ pc = "awaiting"
  /\ req.endpoint = "complete"
  /\ FetchResolves(CompletionAnswer)

\* await apiRes.json() / apiRes.text() of the completion's shipment request
CompletionBody ==
  /\ pc = "reading"
  /\ req.endpoint = "complete"
  /\ BodyRead(CompletionAnswer, ShipmentReplies)

\* server.js: the fetch of the server's own /apps/xbs-shipment is rejected and
\* the catch answers 500.  Before the request is dispatched (the Host header
\* of the request names where it goes) the shipment handler never runs; once
\* it is dispatched the shipment handler goes on by itself: pc stays at its
\* await while resp already holds the completion's answer, and what the
\* shipment handler answers in the end reaches nobody
SelfRejected ==
  /\ pc \in {"awaitingSelf", "awaiting", "reading", "selfAnswered"}
  /\ req.endpoint = "complete"
  /\ UsesOwnEndpoint(variant)
  /\ resp = NoResp
  /\ resp' = ServerError("fetch failed")
  /\ pc' = IF pc \in {"awaiting", "reading"} THEN pc ELSE "responded"
  /\ UNCHANGED <<req, outReq, aggCalls, reply, filterRan, points, filtered, shopCalls,
                 shopReply, orderData, shipmentData, selfResp>>
  /\ UNCHANGED asideVars

\* server.js: the fetch of the server's own /apps/xbs-shipment resolves
SelfReply ==
  /\ pc = "selfAnswered"
  /\ pc' = "readingSelf"
  /\ UNCHANGED <<req, outReq, aggCalls, reply, filterRan, points, filtered, resp, shopCalls,
                 shopReply, orderData, shipmentData, selfResp>>
  /\ UNCHANGED asideVars

\* server.js: await response.json() of that answer, and the response
SelfBody ==
  /\ pc = "readingSelf"
  /\ resp' = CompletionRelay(shipmentData, selfResp)
  /\ pc' = "responded"
  /\ UNCHANGED <<req, outReq, aggCalls, reply, filterRan, points, filtered, shopCalls,
                 shopReply, orderData, shipmentData, selfResp>>
  /\ UNCHANGED asideVars

\* GET /apps/xbs-track/:trackingNumber arrives
ReceiveTracking ==
  /\ pc = "idle"
  /\ HasTrackingEndpoint(variant)
  /\ req' = [NoReq EXCEPT !.endpoint = "track"]
  /\ Dispatch(TrackingStart)
  /\ UNCHANGED <<shopCalls, shopReply, orderData, shipmentData>>

TrackingAnswer(r) ==
  /\ resp' = TrackingFinish(r)
  /\ pc' = "responded"
  /\ UNCHANGED <<filterRan, points, filtered, selfResp>>

\* the aggregator answers the tracking request
TrackingReply ==
  /\ pc = "awaiting"
  /\ req.endpoint = "track"
  /\ FetchResolves(TrackingAnswer)

\* await apiRes.json() of the tracking request
TrackingBody ==
  /\ pc = "reading"
  /\ req.endpoint = "track"
  /\ BodyRead(TrackingAnswer, ShipmentReplies)

\* GET /apps/xbs-services arrives
ReceiveServices ==
  /\ pc = "idle"
  /\ HasServicesEndpoint(variant)
  /\ req' = [NoReq EXCEPT !.endpoint = "services"]
  /\ Dispatch(ServicesStart)
  /\ UNCHANGED <<shopCalls, shopReply, orderData, shipmentData>>

ServicesAnswer(r) ==
  /\ resp' = ServicesFinish(r)
  /\ pc' = "responded"
  /\ UNCHANGED <<filterRan, points, filtered, selfResp>>

\* the aggregator answers the services request
ServicesReply ==
  /\ pc = "awaiting"
  /\ req.endpoint = "services"
  /\ FetchResolves(ServicesAnswer)

\* await apiRes.json() of the services request
ServicesBody ==
  /\ pc = "reading"
  /\ req.endpoint = "services"
  /\ BodyRead(ServicesAnswer, ServicesReplies)

\* GET /health arrives
ReceiveHealth ==
  /\ pc = "idle"
  /\ req' = [NoReq EXCEPT !.endpoint = "health"]
  /\ Dispatch([do |-> "respond", out |-> NoOut, resp |-> HealthResponse])
  /\ UNCHANGED <<shopCalls, shopReply, orderData, shipmentData>>

\* GET /apps/check-inpost-order/:orderId arrives
ReceiveCheckOrder ==
  /\ pc = "idle"
  /\ HasCheckOrderEndpoint(variant)
  /\ req' = [NoReq EXCEPT !.endpoint = "checkOrder"]
  /\ Dispatch([do |-> "respond", out |-> NoOut, resp |-> CheckOrderResponse])
  /\ UNCHANGED <<shopCalls, shopReply, orderData, shipmentData>>

\* GET /apps/test-pudo-shipment arrives (part_000)
ReceiveTestPudo ==
  /\ pc = "idle"
  /\ HasTestPudoEndpoint(variant)
  /\ req' = [NoReq EXCEPT !.endpoint = "testPudo"]
  /\ Dispatch(TestPudoStart)
  /\ UNCHANGED <<shopCalls, shopReply, orderData, shipmentData>>

TestPudoAnswer(r) ==
  /\ resp' = TestPudoFinish(r)
  /\ pc' = "responded"
  /\ UNCHANGED <<filterRan, points, filtered, selfResp>>

\* the aggregator answers the test shipment
TestPudoReply ==
  /\ pc = "awaiting"
  /\ req.endpoint = "testPudo"
  /\ FetchResolves(TestPudoAnswer)

\* await apiRes.json() / apiRes.text() of the test shipment
TestPudoBody ==
  /\ pc = "reading"
  /\ req.endpoint = "testPudo"
  /\ BodyRead(TestPudoAnswer, ShipmentReplies)

\* GET /apps/test-simple-shipment arrives (part_000, part_003)
ReceiveTestSimple ==
  /\ pc = "idle"
  /\ HasTestSimpleEndpoint(variant)
  /\ req' = [NoReq EXCEPT !.endpoint = "testSimple"]
  /\ Dispatch(TestSimpleStart)
  /\ UNCHANGED <<shopCalls, shopReply, orderData, shipmentData>>

TestSimpleAnswer(r) ==
  /\ resp' = TestSimpleFinish(r)
  /\ pc' = "responded"
  /\ UNCHANGED <<filterRan, points, filtered, selfResp>>

\* the aggregator answers the simple test shipment
TestSimpleReply ==
  /\ pc = "awaiting"
  /\ req.endpoint = "testSimple"
  /\ FetchResolves(TestSimpleAnswer)

\* await apiRes.json() / apiRes.text() of the simple test shipment
TestSimpleBody ==
  /\ pc = "reading"
  /\ req.endpoint = "testSimple"
  /\ BodyRead(TestSimpleAnswer, ShipmentReplies)

\* the exchange is over; the server waits for the next request
NextRequest ==
  /\ pc \in {"responded", "unanswered"}
  /\ pc' = "idle"
  /\ req' = NoReq
  /\ outReq' = NoOut
  /\ aggCalls' = 0
  /\ reply' = NoReply
  /\ filterRan' = FALSE
  /\ points' = <<>>
  /\ filtered' = <<>>
  /\ resp' = NoResp
  /\ shopCalls' = 0
  /\ shopReply' = "none"
  /\ orderData' = NoOrder
  /\ shipmentData' = NoShipmentData
  /\ selfResp' = NoResp
  /\ UNCHANGED asideVars

Next ==
  \/ ReceiveLookup
  \/ LookupReply
  \/ LookupBody
  \/ ReceiveShipment
  \/ ShipmentReply
  \/ ShipmentBody
  \/ ReceiveCompletion
  \/ OrderReply
  \/ OrderBody
  \/ SelfRequest
  \/ SelfRejected
  \/ CompletionReply
  \/ CompletionBody
  \/ SelfReply
  \/ SelfBody
  \/ ReceiveTracking
  \/ TrackingReply
  \/ TrackingBody
  \/ ReceiveServices
  \/ ServicesReply
  \/ ServicesBody
  \/ ReceiveHealth
  \/ ReceiveCheckOrder
  \/ ReceiveTestPudo
  \/ TestPudoReply
  \/ TestPudoBody
  \/ ReceiveTestSimple
  \/ TestSimpleReply
  \/ TestSimpleBody
  \/ NextRequest

Spec == Init /\ [][Next]_vars

\* ------------------------------------------- the derivations on their own
\* getInPostCountry and the weight derivation of the completion handler are
\* pure; here they are applied to every order the variant can hold
InitDerive ==
  /\ variant \in {v \in Variants : HasCompletionEndpoint(v)}
  /\ orderData \in OrdersHeld(variant)
  /\ derived = NoDerived
  /\ inflight = [i \in Slots |-> NoExchange]
  /\ place = NoPlace
  /\ page = NoPage
  /\ selfResp = NoResp
  /\ pc = "idle"
  /\ req = NoReq
  /\ outReq = NoOut
  /\ aggCalls = 0
  /\ reply = NoReply
  /\ filterRan = FALSE
  /\ points = <<>>
  /\ filtered = <<>>
  /\ resp = NoResp
  /\ shopCalls = 0
  /\ shopReply = "none"
  /\ shipmentData = NoShipmentData

handlerVars ==
  <<variant, pc, req, outReq, aggCalls, reply, filterRan, points, filtered, resp,
    shopCalls, shopReply, orderData, shipmentData, inflight, place, page, selfResp>>

\* getInPostCountry(orderData)
ApplyClassifier ==
  /\ ~derived.classified
  /\ derived' = [derived EXCEPT !.classified = TRUE,
                                !.inPostCountry = getInPostCountry(orderData)]
  /\ UNCHANGED handlerVars

\* the weight the completion handler puts in shipmentData
ApplyWeight ==
  /\ ~derived.weighed
  /\ derived' = [derived EXCEPT !.weighed = TRUE,
                                !.weight = DerivedWeight(variant, orderData.line_items)]
  /\ UNCHANGED handlerVars

NextDerive ==
  \/ ApplyClassifier
  \/ ApplyWeight

SpecDerive == InitDerive /\ [][NextDerive]_vars

\* --------------------------------------------- several requests in flight
\* Node runs a handler until its next await and then serves whatever else is
\* ready; each request in flight has its own locals.  The same handlers as
\* above, driven for MaxInFlight requests at once on a few inputs.
ConcurrentRequests ==
  { [NoReq EXCEPT !.endpoint = "pudo", !.country = [kind |-> "string", val |-> FR]],
    [NoReq EXCEPT !.endpoint = "pudo", !.country = [kind |-> "string", val |-> FR],
                  !.zip = "75001"],
    [NoReq EXCEPT !.endpoint = "pudo", !.country = [kind |-> "array", val |-> <<>>]],
    [NoReq EXCEPT !.endpoint = "pudo", !.country = [kind |-> "string", val |-> <<"p","l">>],
                  !.zip = "00-001"],
    [NoReq EXCEPT !.endpoint = "pudo"],
    [NoReq EXCEPT !.endpoint = "shipment",
                  !.body = [NoBody EXCEPT !.pudoLocationId = "H4045", !.hasConsignee = TRUE,
                                          !.products = "ok", !.hasValue = TRUE,
                                          !.hasConsignor = TRUE, !.consigneeCountry = FR]],
    [NoReq EXCEPT !.endpoint = "shipment",
                  !.body = [NoBody EXCEPT !.pudoLocationId = "H4045", !.hasConsignee = TRUE,
                                          !.products = "ok", !.weight = Kilograms(500),
                                          !.hasValue = TRUE, !.hasConsignor = TRUE,
                                          !.consigneeCountry = FR]],
    [NoReq EXCEPT !.endpoint = "complete", !.orderNumber = "1001",
                  !.body = [NoBody EXCEPT !.pudoLocationId = "H4045"]] }

ConcurrentReplies ==
  { HttpFailure,
    [NoReply EXCEPT !.ok = TRUE, !.json = TRUE, !.ErrorLevel = 0, !.hasLocation = TRUE,
                    !.Location = MkPoints(<<[has |-> TRUE, val |-> <<"C","o","l","i","s"," ","P","r","i","v","e">>]>>),
                    !.hasShipment = TRUE, !.TrackingNumber = "TN123", !.Carrier = "InPost"],
    [NoReply EXCEPT !.ok = TRUE, !.json = TRUE, !.ErrorLevel = 1,
                    !.Error = "Address corrected"] }

ConcurrentShopReplies ==
  { [kind |-> "status", order |-> NoOrder],
    [kind |-> "order",
     order |-> [NoOrder EXCEPT !.kind = "platform", !.order_number = "1001", !.hasLines = TRUE,
                               !.shipping_lines = <<Title(TitleEnvoiInPost)>>,
                               !.line_items = <<Item(500, 2)>>]] }

\* a server that takes no request while another one awaits a reply
HasRouteWhenFree(v, q) ==
  /\ \A j \in Slots : inflight[j].pc \in {"idle", "responded", "unanswered"}
  /\ CASE q.endpoint = "pudo" -> TRUE
       [] q.endpoint = "shipment" -> HasShipmentEndpoint(v)
       [] q.endpoint = "complete" -> HasCompletionEndpoint(v)
       [] q.endpoint = "track" -> HasTrackingEndpoint(v)
       [] q.endpoint = "services" -> HasServicesEndpoint(v)
       [] q.endpoint = "health" -> TRUE
       [] q.endpoint = "checkOrder" -> HasCheckOrderEndpoint(v)
       [] q.endpoint = "testPudo" -> HasTestPudoEndpoint(v)
       [] q.endpoint = "testSimple" -> HasTestSimpleEndpoint(v)
       [] OTHER -> FALSE

\* the route table
HasRoute(v, q) ==
  CASE q.endpoint = "pudo" -> TRUE
    [] q.endpoint = "shipment" -> HasShipmentEndpoint(v)
    [] q.endpoint = "complete" -> HasCompletionEndpoint(v)
    [] q.endpoint = "track" -> HasTrackingEndpoint(v)
    [] q.endpoint = "services" -> HasServicesEndpoint(v)
    [] q.endpoint = "health" -> TRUE
    [] q.endpoint = "checkOrder" -> HasCheckOrderEndpoint(v)
    [] q.endpoint = "testPudo" -> HasTestPudoEndpoint(v)
    [] q.endpoint = "testSimple" -> HasTestSimpleEndpoint(v)
    [] OTHER -> FALSE

WithShop(step, shop) ==
  [do |-> step.do, out |-> step.out, resp |-> step.resp, shop |-> shop]

\* the handler of q's route, up to its first await
StartOf(v, q, configured) ==
  CASE q.endpoint = "pudo" -> WithShop(LookupStart(v, q), NoShop)
    [] q.endpoint = "shipment" -> WithShop(ShipmentStart(v, q.body), NoShop)
    [] q.endpoint = "track" -> WithShop(TrackingStart, NoShop)
    [] q.endpoint = "services" -> WithShop(ServicesStart, NoShop)
    [] q.endpoint = "health" ->
         WithShop([do |-> "respond", out |-> NoOut, resp |-> HealthResponse], NoShop)
    [] q.endpoint = "checkOrder" ->
         WithShop([do |-> "respond", out |-> NoOut, resp |-> CheckOrderResponse], NoShop)
    [] q.endpoint = "testPudo" -> WithShop(TestPudoStart, NoShop)
    [] q.endpoint = "testSimple" -> WithShop(TestSimpleStart, NoShop)
    [] OTHER ->
         IF CompletionCheck(q) # NoResp
           THEN WithShop([do |-> "respond", out |-> NoOut, resp |-> CompletionCheck(q)], NoShop)
           ELSE IF v = "p000" /\ configured
                  THEN WithShop([do |-> "read", out |-> NoOut, resp |-> NoResp], NoShop)
                  ELSE WithShop(CompletionStart(v, q, getShopifyOrder(v, q.orderNumber, Unconfigured)),
                                IF v = "p000" THEN Unconfigured ELSE NoShop)

\* the handler of q's route, from the aggregator's reply on
FinishOf(v, q, shop, r) ==
  CASE q.endpoint = "pudo" -> LookupFinish(v, q, r).resp
    [] q.endpoint = "shipment" -> ShipmentFinish(v, r)
    [] q.endpoint = "track" -> TrackingFinish(r)
    [] q.endpoint = "services" -> ServicesFinish(r)
    [] q.endpoint = "testPudo" -> TestPudoFinish(r)
    [] q.endpoint = "testSimple" -> TestSimpleFinish(r)
    [] OTHER ->
         CompletionFinish(v, ShipmentDataOf(v, q, getShopifyOrder(v, q.orderNumber, shop)), r)

\* exchange x once its handler has gone on with the aggregator's answer r:
\* answered, or on server.js the own shipment endpoint has answered the
\* completion handler
AfterReply(v, x, r) ==
  IF x.req.endpoint = "complete" /\ UsesOwnEndpoint(v)
    THEN [x EXCEPT !.pc = IF x.resp = NoResp THEN "selfAnswered" ELSE "responded",
                   !.reply = r, !.self = ShipmentFinish(v, r)]
    ELSE [x EXCEPT !.pc = "responded", !.reply = r,
                   !.resp = FinishOf(v, x.req, x.shop, r)]

\* exchange x once getShopifyOrder has returned for the platform's answer r
AfterOrder(v, x, r) ==
  The({ [x EXCEPT !.pc = PcAfter(step.do), !.shop = r, !.out = step.out,
                  !.calls = CallsOf(step), !.resp = step.resp]
          : step \in {CompletionStart(v, x.req, getShopifyOrder(v, x.req.orderNumber, r))} })

mainVars ==
  <<variant, pc, req, outReq, aggCalls, reply, filterRan, points, filtered, resp,
    shopCalls, shopReply, orderData, shipmentData, derived, place, page, selfResp>>

\* a request arrives while the others are wherever they are
Arrive(i) ==
  /\ inflight[i].pc = "idle"
  /\ \E q \in ConcurrentRequests, configured \in BOOLEAN :
       /\ HasRoute(variant, q)
       /\ LET step == StartOf(variant, q, configured)
          IN  inflight' =
                [inflight EXCEPT ![i] =
                   [NoExchange EXCEPT !.pc = PcAfter(step.do), !.req = q,
                                      !.shop = step.shop, !.out = step.out,
                                      !.calls = CallsOf(step),
                                      !.shopCalls = IF step.do = "read" THEN 1 ELSE 0,
                                      !.resp = step.resp]]
  /\ UNCHANGED mainVars

\* the fetch of the order platform resolves for request i
PlatformAnswers(i) ==
  /\ inflight[i].pc = "awaitingOrder"
  /\ \/ \E r \in {x \in ConcurrentShopReplies : ShopHeadersFail(x)} :
          inflight' = [inflight EXCEPT ![i] = AfterOrder(variant, inflight[i], r)]
     \/ inflight' = [inflight EXCEPT ![i].pc = "readingOrder"]
  /\ UNCHANGED mainVars

\* request i has read the body of the order platform's answer
PlatformBody(i) ==
  /\ inflight[i].pc = "readingOrder"
  /\ \E r \in {x \in ConcurrentShopReplies : ~ShopHeadersFail(x)} :
       inflight' = [inflight EXCEPT ![i] = AfterOrder(variant, inflight[i], r)]
  /\ UNCHANGED mainVars

\* server.js: the request that completion i posted to the server's own
\* /apps/xbs-shipment is dispatched to the shipment handler
SelfArrives(i) ==
  /\ inflight[i].pc = "awaitingSelf"
  /\ LET x == inflight[i]
         order == getShopifyOrder(variant, x.req.orderNumber, x.shop)
     IN  \E body \in {ShipmentDataOf(variant, x.req, order).body} :
         \E step \in {ShipmentStart(variant, body)} :
           inflight' =
             [inflight EXCEPT ![i] =
                [x EXCEPT !.pc = IF step.do = "send" THEN "awaiting" ELSE "selfAnswered",
                          !.out = step.out, !.calls = CallsOf(step), !.self = step.resp]]
  /\ UNCHANGED mainVars

\* the fetch of the aggregator request of request i resolves
AggregatorAnswers(i) ==
  /\ inflight[i].pc = "awaiting"
  /\ \E ok \in BOOLEAN :
       LET x == inflight[i]
       IN  inflight' =
             [inflight EXCEPT ![i] =
                IF ReadsBody(variant, x.req, Headers(ok))
                  THEN [x EXCEPT !.pc = "reading", !.reply = Headers(ok)]
                  ELSE AfterReply(variant, x, Headers(ok))]
  /\ UNCHANGED mainVars

\* request i has read the body of the aggregator's answer
AggregatorBody(i) ==
  /\ inflight[i].pc = "reading"
  /\ LET x == inflight[i]
     IN  IF x.reply.ok
           THEN \E r \in Readable(ConcurrentReplies) :
                  inflight' = [inflight EXCEPT ![i] = AfterReply(variant, x, r)]
           ELSE inflight' = [inflight EXCEPT ![i] = AfterReply(variant, x, x.reply)]
  /\ UNCHANGED mainVars

\* server.js: the fetch of the server's own endpoint resolves for completion i
SelfAnswers(i) ==
  /\ inflight[i].pc = "selfAnswered"
  /\ inflight' = [inflight EXCEPT ![i].pc = "readingSelf"]
  /\ UNCHANGED mainVars

\* server.js: completion i has read that answer and responds
SelfRead(i) ==
  /\ inflight[i].pc = "readingSelf"
  /\ LET x == inflight[i]
         order == getShopifyOrder(variant, x.req.orderNumber, x.shop)
     IN  inflight' =
           [inflight EXCEPT ![i] =
              [x EXCEPT !.pc = "responded",
                        !.resp = CompletionRelay(ShipmentDataOf(variant, x.req, order), x.self)]]
  /\ UNCHANGED mainVars

\* the exchange of request i is over
Leave(i) ==
  /\ inflight[i].pc \in {"responded", "unanswered"}
  /\ inflight' = [inflight EXCEPT ![i] = NoExchange]
  /\ UNCHANGED mainVars

\* the fetch of the server's own /apps/xbs-shipment is rejected for
\* completion i, which answers 500: "refused" before the request is
\* dispatched, "lost" after it, when the shipment handler goes on by itself
SelfFails(i) ==
  /\ inflight[i].pc \in {"awaitingSelf", "awaiting", "reading", "selfAnswered"}
  /\ inflight[i].req.endpoint = "complete"
  /\ UsesOwnEndpoint(variant)
  /\ inflight[i].resp = NoResp
  /\ inflight' =
       [inflight EXCEPT ![i] =
          [@ EXCEPT !.pc = IF @ \in {"awaiting", "reading"} THEN @ ELSE "responded",
                    !.resp = ServerError("fetch failed"),
                    !.loopback = IF inflight[i].pc = "awaitingSelf" THEN "refused" ELSE "lost"]]
  /\ UNCHANGED mainVars

NextConcurrent ==
  \/ \E i \in Slots : Arrive(i)
  \/ \E i \in Slots : PlatformAnswers(i)
  \/ \E i \in Slots : PlatformBody(i)
  \/ \E i \in Slots : SelfArrives(i)
  \/ \E i \in Slots : SelfFails(i)
  \/ \E i \in Slots : AggregatorAnswers(i)
  \/ \E i \in Slots : AggregatorBody(i)
  \/ \E i \in Slots : SelfAnswers(i)
  \/ \E i \in Slots : SelfRead(i)
  \/ \E i \in Slots : Leave(i)

SpecConcurrent == Init /\ [][NextConcurrent]_vars

\* ------------------------------------------- the reshaping of one location
\* filtered.map(loc => ({ ..., latitude: loc.Latitude, longitude: loc.Longitude }))
\* applied to one location whose coordinates are whatever the aggregator sent
InitReshape ==
  /\ variant \in Variants
  /\ place \in {[NoPlace EXCEPT !.Latitude = a, !.Longitude = b]
                  : a \in CoordinateValues, b \in CoordinateValues}
  /\ page = NoPage
  /\ selfResp = NoResp
  /\ orderData = NoOrder
  /\ derived = NoDerived
  /\ inflight = [i \in Slots |-> NoExchange]
  /\ pc = "idle"
  /\ req = NoReq
  /\ outReq = NoOut
  /\ aggCalls = 0
  /\ reply = NoReply
  /\ filterRan = FALSE
  /\ points = <<>>
  /\ filtered = <<>>
  /\ resp = NoResp
  /\ shopCalls = 0
  /\ shopReply = "none"
  /\ shipmentData = NoShipmentData

\* part_002 calls the undefined springGetLocations first and reshapes nothing
ApplyReshape ==
  /\ variant # "p002"
  /\ ~place.reshaped
  /\ place' = ReshapeCoordinates(place)
  /\ UNCHANGED <<variant, pc, req, outReq, aggCalls, reply, filterRan, points, filtered,
                 resp, shopCalls, shopReply, orderData, shipmentData, derived, inflight,
                 page, selfResp>>

NextReshape == ApplyReshape

SpecReshape == InitReshape /\ [][NextReshape]_vars

\* ------------------------------------------------------ the selection page
\* GET /pudo-selection answers a page whose script keeps selectedLocation, the
\* cards of locationsDiv, the disabled flag of confirmBtn and its fetches.
HasPage(v) == v \in {"server", "p000", "p003"}

\* req.query.country of the page request: missing, empty, or a country
PageCountries ==
  {[kind |-> "absent", val |-> <<>>], [kind |-> "string", val |-> <<>>],
   [kind |-> "string", val |-> FR], [kind |-> "string", val |-> PL]}

\* ${country} inside the template literal of res.send
TextUndefined == <<"u","n","d","e","f","i","n","e","d">>
TemplateText(c) == IF c.kind = "absent" THEN TextUndefined ELSE c.val

\* const country = '${country}' || 'FR';
ScriptCountry(c) == IF TemplateText(c) = <<>> THEN FR ELSE TemplateText(c)

\* ids of the locations a lookup answers, and the lists it may answer
CardIds == {"H4045", "H5021"}
CardLists == {<<>>, <<"H4045">>, <<"H5021">>, <<"H4045", "H5021">>}
ZipInputs == {"", "75001"}

serverVars ==
  <<variant, pc, req, outReq, aggCalls, reply, filterRan, points, filtered, resp,
    shopCalls, shopReply, orderData, shipmentData, derived, inflight, place, selfResp>>

\* app.get("/pudo-selection"): the page with its script constants
LoadPage ==
  /\ HasPage(variant)
  /\ ~page.loaded
  /\ \E c \in PageCountries :
       page' = [NoPage EXCEPT !.loaded = TRUE, !.query = c, !.country = ScriptCountry(c)]
  /\ UNCHANGED serverVars

\* function searchLocations()
searchLocations ==
  /\ page.loaded
  /\ page.searches < MaxSearches
  /\ \E zip \in ZipInputs :
       page' = IF zip = ""
                 THEN [page EXCEPT !.message = "error"]
                 ELSE [page EXCEPT !.message = "hidden", !.cards = <<>>,
                                   !.selectedCard = 0,
                                   !.searches = page.searches + 1,
                                   !.searchCountry = page.country]
  /\ UNCHANGED serverVars

\* function displayLocations(locations)
displayLocations(pg, locations) ==
  [pg EXCEPT !.cards = locations, !.selectedCard = 0]

\* .then(response => response.json()) of the search fetch: the body of one
\* answered search starts to be read; a fetch that fails goes to .catch
SearchResponse ==
  /\ page.searches > page.searchBodies
  /\ \/ page' = [page EXCEPT !.searchBodies = page.searchBodies + 1]
     \/ page' = [page EXCEPT !.searches = page.searches - 1, !.message = "error"]
  /\ UNCHANGED serverVars

\* .then(data => ...) of the search fetch: success with locations or a
\* success:false answer; a body that is not JSON goes to .catch
SearchData ==
  /\ page.searchBodies > 0
  /\ \E read \in {[page EXCEPT !.searches = page.searches - 1,
                               !.searchBodies = page.searchBodies - 1]} :
       \/ \E locations \in CardLists : page' = displayLocations(read, locations)
       \/ page' = [read EXCEPT !.message = "error"]
  /\ UNCHANGED serverVars

\* function selectLocation(locationId, element), clicked on card i
selectLocation(pg, i) ==
  [pg EXCEPT !.selectedCard = i, !.selectedLocation = pg.cards[i],
             !.confirmDisabled = FALSE]

\* a click on one of the displayed cards
ClickCard ==
  /\ page.loaded
  /\ \E i \in 1..Len(page.cards) : page' = selectLocation(page, i)
  /\ UNCHANGED serverVars

\* function confirmSelection() up to its fetch
confirmSelection(pg) ==
  IF pg.selectedLocation = Undefined
    THEN [pg EXCEPT !.message = "error"]
    ELSE [pg EXCEPT !.confirmDisabled = TRUE,
                    !.pending = pg.pending + 1,
                    !.sent = Append(pg.sent, [pudoLocationId |-> pg.selectedLocation,
                                              country |-> pg.country])]

\* a click on confirmBtn; a disabled button fires no onclick
ClickConfirm ==
  /\ page.loaded
  /\ ~page.confirmDisabled
  /\ Len(page.sent) < MaxCompletions
  /\ page' = confirmSelection(page)
  /\ UNCHANGED serverVars

\* .then(response => response.json()) of the completion fetch: the body of
\* one answered completion starts to be read; a fetch that fails goes to .catch
CompletionResponse ==
  /\ page.pending > page.completionBodies
  /\ \/ page' = [page EXCEPT !.completionBodies = page.completionBodies + 1]
     \/ page' = [page EXCEPT !.pending = page.pending - 1, !.message = "error",
                             !.confirmDisabled = FALSE]
  /\ UNCHANGED serverVars

\* .then(data => ...) of the completion fetch: data.success or not; a body
\* that is not JSON goes to .catch
CompletionData ==
  /\ page.completionBodies > 0
  /\ \E read \in {[page EXCEPT !.pending = page.pending - 1,
                               !.completionBodies = page.completionBodies - 1]} :
       \/ page' = [read EXCEPT !.message = "success", !.shipments = page.shipments + 1]
       \/ page' = [read EXCEPT !.message = "error", !.confirmDisabled = FALSE]
  /\ UNCHANGED serverVars

NextPage ==
  \/ LoadPage
  \/ searchLocations
  \/ SearchResponse
  \/ SearchData
  \/ ClickCard
  \/ ClickConfirm
  \/ CompletionResponse
  \/ CompletionData

SpecPage == Init /\ [][NextPage]_vars

\* ================================================================ claims
\* helpers of the claims: what the claims say, stated without the handlers

\* s contains frag when letter case is ignored
ContainsIgnoringCase(s, frag) ==
  \E off \in 0..(Len(s) - Len(frag)) :
    \A j \in 1..Len(frag) : ToLowerChar(s[off + j]) = ToLowerChar(frag[j])

\* the points of pts, in order, whose Carrier is present and contains frag
PointsOfCarrier(pts, frag) ==
  SelectSeq(pts, LAMBDA loc : loc.Carrier.has /\ ContainsIgnoringCase(loc.Carrier.val, frag))

\* the points the aggregator sent in its reply
SentPoints == IF reply.hasLocation THEN reply.Location ELSE <<>>

IsCountry(c) == req.country.kind = "string" /\ ToUpperCase(req.country.val) = c

LookupAnswered == req.endpoint = "pudo" /\ pc = "responded" /\ aggCalls = 1

ShipmentAnswered == req.endpoint = "shipment" /\ pc = "responded"

\* C1: in a lookup for FR (resp. PL), in any letter case, the points the
\* handler retains and returns are exactly the aggregator's points, in order,
\* whose Carrier contains "colis prive" (resp. "inpost") ignoring case; a
\* point without a Carrier is never retained.
C1_CarrierFilterExact ==
  /\ (req.endpoint = "pudo" /\ filterRan /\ IsCountry(FR))
        => filtered = PointsOfCarrier(SentPoints, FragColisPrive)
  /\ (req.endpoint = "pudo" /\ filterRan /\ IsCountry(PL))
        => filtered = PointsOfCarrier(SentPoints, FragInpost)
  /\ (LookupAnswered /\ resp.success = "true" /\ IsCountry(FR))
        => resp.locations = Reshape(PointsOfCarrier(SentPoints, FragColisPrive))
  /\ (LookupAnswered /\ resp.success = "true" /\ IsCountry(PL))
        => resp.locations = Reshape(PointsOfCarrier(SentPoints, FragInpost))

\* C2: in a successful lookup for a country that is neither FR nor PL every
\* point the aggregator sent is returned, in the same order, and filtered
\* equals totalFound.
C2_OtherCountriesUnfiltered ==
  (LookupAnswered /\ resp.success = "true" /\ ~IsCountry(FR) /\ ~IsCountry(PL))
     => /\ Len(resp.locations) = Len(SentPoints)
        /\ \A i \in 1..Len(SentPoints) :
             /\ resp.locations[i].id = SentPoints[i].Id
             /\ resp.locations[i].carrier = SentPoints[i].Carrier
        /\ resp.filtered = resp.totalFound

\* a successful lookup for another country returned two points, one of them
\* without a Carrier
C2_Witness ==
  /\ LookupAnswered /\ resp.success = "true"
  /\ ~IsCountry(FR) /\ ~IsCountry(PL)
  /\ Len(SentPoints) = 2
  /\ ~SentPoints[1].Carrier.has /\ SentPoints[2].Carrier.has
  /\ Len(resp.locations) = 2

\* C3: a shipment request that omits the recipient address, the contents or
\* the weight is answered with a 4xx status and causes no aggregator call.
C3_MissingFieldIsClientError ==
  (ShipmentAnswered
     /\ (~req.body.hasConsignee \/ req.body.products = "absent"
           \/ req.body.weight = NoWeight))
     => /\ resp.status \in 400..499
        /\ aggCalls = 0
        /\ outReq = NoOut

\* C4: a shipment for the CLLCT service without a pickup-point identifier
\* fails without an OrderShipment request, and no OrderShipment request for
\* CLLCT is ever sent without a PudoLocationId.
C4_CllctNeedsPudoLocationId ==
  /\ (req.endpoint = "shipment" /\ pc # "idle" /\ ServiceOf(req.body) = "CLLCT"
        /\ req.body.pudoLocationId = Undefined)
        => /\ aggCalls = 0
           /\ outReq = NoOut
           /\ pc = "responded"
           /\ resp.status >= 400
  /\ (outReq.Command = "OrderShipment" /\ outReq.Service = "CLLCT")
        => (outReq.PudoLocationId # Undefined
              \/ outReq.ConsigneePudoLocationId # Undefined)

\* C5: every shipment response with success:true carries a tracking number
\* obtained from the aggregator, whatever the aggregator replied.
C5_SuccessHasTrackingNumber ==
  (ShipmentAnswered /\ resp.success = "true")
     => /\ ~Falsy(resp.trackingNumber)
        /\ resp.trackingNumber = reply.TrackingNumber

\* C6: when the reply to OrderShipment carries a Shipment with a tracking
\* number, the response reports success with that tracking number whatever
\* the ErrorLevel, and returns the reply's Error text in the warning field.
C6_TrackingNumberMeansSuccess ==
  (ShipmentAnswered /\ aggCalls = 1 /\ reply.ok /\ reply.json
     /\ reply.hasShipment /\ ~Falsy(reply.TrackingNumber))
     => /\ resp.success = "true"
        /\ resp.trackingNumber = reply.TrackingNumber
        /\ resp.warning = reply.Error

\* the aggregator's reply is a failure: HTTP status not ok, or ErrorLevel not 0
AggregatorFailed == ~reply.ok \/ (reply.json /\ reply.ErrorLevel # 0)

\* C7: a lookup answers success:true only when the aggregator's HTTP status
\* is ok and its ErrorLevel is 0; on a failed HTTP status or another
\* ErrorLevel it answers 5xx with success:false, an error message and no
\* locations.
C7_LookupUpstreamFailure ==
  /\ (LookupAnswered /\ resp.success = "true")
        => (reply.ok /\ reply.json /\ reply.ErrorLevel = 0)
  /\ (LookupAnswered /\ AggregatorFailed)
        => /\ resp.status \in 500..599
           /\ resp.success = "false"
           /\ resp.error # Undefined
           /\ ~resp.hasLocations
           /\ resp.locations = <<>>

\* C8: a lookup without a country parameter is answered 400 and no
\* aggregator call is made.
C8_MissingCountryIs400 ==
  (req.endpoint = "pudo" /\ req.country.kind = "absent")
     => /\ pc = "responded"
        /\ resp.status = 400
        /\ aggCalls = 0
        /\ outReq = NoOut

\* a lookup that had a postal code and a city but no country was answered
C8_Witness ==
  /\ req.endpoint = "pudo" /\ req.country.kind = "absent"
  /\ req.zip # Undefined /\ req.city # Undefined
  /\ pc = "responded" /\ resp.status = 400

\* the request the lookup has sent
LookupSent == req.endpoint = "pudo" /\ aggCalls = 1

\* a postal code is supplied and, for IT, a city too
Narrowed == req.zip # Undefined /\ (IsCountry(IT) => req.city # Undefined)

SentSpecific ==
  /\ outReq.Command = "GetLocations"
  /\ outReq.Zip = req.zip
  /\ outReq.City = IF IsCountry(IT) THEN req.city ELSE Undefined

SentDaily ==
  /\ outReq.Command = "GetLocationsDaily"
  /\ outReq.ShowTemporaryOutOfService = "false"
  /\ outReq.Zip = Undefined
  /\ outReq.City = Undefined

\* C9 (as claimed): the lookup sends GetLocations with the postal code (and
\* the city for IT) exactly when a postal code is supplied and, for IT, a
\* city too; otherwise GetLocationsDaily with ShowTemporaryOutOfService
\* false and no postal code.
C9_RequestSelectionAsClaimed ==
  LookupSent => /\ outReq.Country = ToUpperCase(req.country.val)
                /\ IF Narrowed THEN SentSpecific ELSE SentDaily

\* C9 (amended): server.js, part_001 and part_003 select the request as
\* claimed; part_000 always sends GetLocations, with the postal code when
\* one is supplied and the city when one is supplied for IT; part_002 always
\* sends GetLocationsDaily with neither postal code nor
\* ShowTemporaryOutOfService.
C9_RequestSelection ==
  LookupSent =>
    /\ outReq.Country = ToUpperCase(req.country.val)
    /\ variant \in {"server", "p001", "p003"}
         => IF Narrowed THEN SentSpecific ELSE SentDaily
    /\ variant = "p000"
         => /\ outReq.Command = "GetLocations"
            /\ outReq.Zip = req.zip
            /\ outReq.City = IF IsCountry(IT) THEN req.city ELSE Undefined
            /\ outReq.ShowTemporaryOutOfService = Undefined
    /\ variant = "p002"
         => /\ outReq.Command = "GetLocationsDaily"
            /\ outReq.Zip = Undefined
            /\ outReq.City = Undefined
            /\ outReq.ShowTemporaryOutOfService = Undefined

\* server.js got a lookup for IT with a postal code and no city, and sent
\* the daily list request
C9_Witness ==
  /\ variant = "server" /\ LookupSent
  /\ IsCountry(IT) /\ req.zip # Undefined /\ req.city = Undefined
  /\ outReq.Command = "GetLocationsDaily"

\* C10: in every successful lookup response totalFound is the number of
\* points the aggregator sent, filtered is the number of locations, and
\* filtered <= totalFound.
C10_Counts ==
  (LookupAnswered /\ resp.success = "true")
     => /\ resp.totalFound = Len(SentPoints)
        /\ resp.filtered = Len(resp.locations)
        /\ resp.filtered <= resp.totalFound

\* a lookup for fr with a postal code got three points, two of the French
\* carrier, and answered totalFound 3, filtered 2 with 2 locations
C10_Witness ==
  /\ LookupAnswered /\ resp.success = "true"
  /\ req.country.val = <<"f","r">> /\ req.zip = "75001"
  /\ Len(SentPoints) = 3
  /\ resp.totalFound = 3 /\ resp.filtered = 2 /\ Len(resp.locations) = 2

\* ------------------------------------------ claims on requests in flight
\* request j is a lookup that was answered with a point list, and the answer
\* is still at hand (nothing that could have expired it has happened)
AnsweredLookup(j) ==
  /\ inflight[j].pc = "responded"
  /\ inflight[j].req.endpoint = "pudo"
  /\ inflight[j].resp.success = "true"

\* this step is the arrival, at slot i, of a lookup for the country (and
\* narrowing) of the answered lookup j
RepeatsLookup(i, j) ==
  /\ i # j
  /\ AnsweredLookup(j)
  /\ inflight[i].pc = "idle"
  /\ inflight'[i].pc # "idle"
  /\ inflight'[i].req = inflight[j].req

LookupArrives(i) ==
  /\ inflight[i].pc = "idle"
  /\ inflight'[i].pc # "idle"
  /\ inflight'[i].req.endpoint = "pudo"
  /\ inflight'[i].req.country.kind = "string"

Suspended ==
  {"awaiting", "reading", "awaitingOrder", "readingOrder", "awaitingSelf",
   "selfAnswered", "readingSelf"}

\* positions at which the handler's outbound calls have all been decided
CallsDecided == {"awaiting", "reading", "selfAnswered", "readingSelf", "responded"}

\* the step that resumes request i is enabled
CanResume(i) ==
  CASE inflight[i].pc = "idle" -> ENABLED Arrive(i)
    [] inflight[i].pc = "awaiting" -> ENABLED AggregatorAnswers(i)
    [] inflight[i].pc = "reading" -> ENABLED AggregatorBody(i)
    [] inflight[i].pc = "awaitingOrder" -> ENABLED PlatformAnswers(i)
    [] inflight[i].pc = "readingOrder" -> ENABLED PlatformBody(i)
    [] inflight[i].pc = "awaitingSelf" -> ENABLED SelfArrives(i)
    [] inflight[i].pc = "selfAnswered" -> ENABLED SelfAnswers(i)
    [] inflight[i].pc = "readingSelf" -> ENABLED SelfRead(i)
    [] OTHER -> ENABLED Leave(i)

CompletionRequest == req.endpoint = "complete"

\* the placeholder order the spec describes, for order number n
IsPlaceholderFor(order, n) ==
  /\ order.order_number = n
  /\ order.shipping_lines = <<Title(TitlePointsDeRetrait)>>
  /\ order.line_items = <<Item(500, 1)>>

\* C13: the Order Data Provider never propagates a failure: when the
\* credentials are unconfigured, the order-platform call fails or returns a
\* non-success status or an unreadable body, or no order matches, the handler
\* holds the fixed placeholder order carrying the requested order number and
\* goes on with it (it never answers "order not found").
C13_ProviderNeverFails ==
  (CompletionRequest /\ shopReply \in ShopFailures \cup {Unconfigured.kind})
    => /\ IsPlaceholderFor(orderData, req.orderNumber)
       /\ shipmentData.has
       /\ resp.status # 404

C13_Witness ==
  /\ CompletionRequest
  /\ shopCalls = 1
  /\ shopReply = "status"
  /\ orderData = FallbackOrder("1001")
  /\ pc = "awaiting"

\* C14: an order-completion request that lacks the order number or the
\* pickup-point identifier is answered with a 4xx response carrying
\* success:false, and causes neither an order-platform read nor an
\* aggregator call.
C14_IncompleteCompletionRejected ==
  (CompletionRequest /\ (Falsy(req.orderNumber) \/ Falsy(req.body.pudoLocationId)))
    => /\ pc = "responded"
       /\ resp.status \in 400..499
       /\ resp.success = "false"
       /\ shopCalls = 0
       /\ aggCalls = 0
       /\ outReq = NoOut

C14_Witness ==
  /\ CompletionRequest
  /\ req.orderNumber = "1001"
  /\ req.body.pudoLocationId = Undefined
  /\ resp.status = 400
  /\ resp.success = "false"

\* the country input of the completion request, when one is given
CountryGiven == req.country.kind = "string" /\ req.country.val # <<>>

\* the destination country the spec describes
DestinationCountry ==
  IF CountryGiven
    THEN req.country.val
    ELSE IF getInPostCountry(orderData) # NoCountryCode
           THEN getInPostCountry(orderData)
           ELSE FR

\* C15: in order completion the destination country is the explicit country
\* input when one is given (even if the order's shipping method classifies
\* to another country), otherwise the classifier's country, otherwise FR;
\* that country is the recipient country of the OrderShipment request and
\* the country reported in the success response.
C15_DestinationCountry ==
  /\ (CompletionRequest /\ outReq.Command = "OrderShipment")
       => outReq.ConsigneeCountry = DestinationCountry
  /\ (CompletionRequest /\ resp.success = "true")
       => resp.country = DestinationCountry

\* an explicit PL overrules an order whose shipping method classifies to FR
C15_Witness ==
  /\ CompletionRequest
  /\ req.country.val = PL
  /\ getInPostCountry(orderData) = FR
  /\ outReq.ConsigneeCountry = PL
  /\ resp.success = "true"
  /\ resp.country = PL

\* the response of POST /apps/xbs-shipment to the fields derived from the
\* order, given the aggregator's reply to this exchange
DirectShipment ==
  LET start == ShipmentStart(variant, ShipmentDataOf(variant, req, orderData).body)
  IN  IF start.do = "send" THEN ShipmentFinish(variant, reply) ELSE start.resp

\* C16: order completion with a known order number, a selected pickup-point
\* identifier and no country produces the same success flag, tracking number
\* and carrier as the shipment endpoint called directly with the fields
\* derived from that order, for every aggregator reply.
C16_CompletionIsDirectShipment ==
  (CompletionRequest /\ pc = "responded" /\ orderData.kind # "none"
     /\ req.country.kind = "absent")
    => /\ resp.success = DirectShipment.success
       /\ resp.trackingNumber = DirectShipment.trackingNumber
       /\ resp.carrier = DirectShipment.carrier

\* ------------------------------------------------------- derivation claims
AllPresent(lineItems) ==
  \A i \in 1..Len(lineItems) :
    lineItems[i].grams # Missing /\ lineItems[i].quantity # Missing

\* grams * quantity of an item, a missing mass or quantity counting as zero
MassOrZero(item) ==
  IF item.grams = Missing \/ item.quantity = Missing THEN 0 ELSE item.grams * item.quantity

RECURSIVE TotalGrams(_)
TotalGrams(lineItems) ==
  IF lineItems = <<>> THEN 0 ELSE MassOrZero(Head(lineItems)) + TotalGrams(Tail(lineItems))

\* the 0.1 kg floor, in grams
Floored(g) == IF g < 100 THEN 100 ELSE g

\* w is a number of at least 0.1
AtLeastFloor(w) == w.kind = "num" /\ ~Less(w, Tenth)

\* C17 as stated: for every list of line items (with mass and quantity
\* present), the shipment weight derived from it is the sum over items of
\* grams * quantity / 1000 kilograms, replaced by 0.1 kg whenever that sum
\* is below it, and never below the floor.
C17_WeightFloor ==
  (derived.weighed /\ AllPresent(orderData.line_items))
    => /\ derived.weight = Kilograms(Floored(TotalGrams(orderData.line_items)))
       /\ AtLeastFloor(derived.weight)

\* C17: for every list of line items with mass and quantity present that a
\* completion handler can hold, the derived shipment weight is never below
\* the 0.1 kg floor, is 0.1 kg when the items sum to less than 100 g, is
\* exactly grams * quantity / 1000 (floored) for a list of at most one item,
\* and for longer lists lies within a gram of the floored sum: the sum is
\* formed item by item in double precision and need not be the number
\* nearest to the exact sum.
C17_WeightWithinRounding ==
  (derived.weighed /\ AllPresent(orderData.line_items))
    => LET grams == TotalGrams(orderData.line_items)
       IN  /\ AtLeastFloor(derived.weight)
           /\ grams < 100 => derived.weight = Tenth
           /\ Len(orderData.line_items) <= 1
                 => derived.weight = Kilograms(Floored(grams))
           /\ Less(Kilograms(Floored(grams) - 1), derived.weight)
           /\ Less(derived.weight, Kilograms(Floored(grams) + 1))

\* part_000 weighed 10 g x 1 and 200 g x 1: 0.01 + 0.2 is the number just
\* above 0.21
C17_Witness ==
  /\ variant = "p000"
  /\ derived.weighed
  /\ orderData.line_items = <<Item(10, 1), Item(200, 1)>>
  /\ Less(Kilograms(210), derived.weight)
  /\ Less(derived.weight, Kilograms(211))

\* C18: a line item whose mass or quantity is missing contributes zero to
\* the total mass instead of raising an error, and the derived weight is
\* still a shippable weight of at least 100 g = 0.1 kg.
C18_MissingCountsAsZero ==
  (derived.weighed /\ ~AllPresent(orderData.line_items))
    => /\ derived.weight = Kilograms(Floored(TotalGrams(orderData.line_items)))
       /\ AtLeastFloor(derived.weight)

\* the indices of the shipping lines whose title contains a pickup-method
\* substring, letter case respected
PickupLines(order) ==
  IF order.hasLines
    THEN {i \in 1..Len(order.shipping_lines) :
            /\ order.shipping_lines[i].has
            /\ \/ Includes(order.shipping_lines[i].val, TitleInPost)
               \/ Includes(order.shipping_lines[i].val, TitleFrance)}
    ELSE {}

FirstPickupLine(order) ==
  order.shipping_lines[CHOOSE i \in PickupLines(order) : \A j \in PickupLines(order) : i <= j]

\* C19: the classifier returns the country of the first shipping line whose
\* title contains a known pickup-method substring (PL for 'InPost z
\* Hiszpanii', FR for 'France-Continent (Point Pack et Locker)'), matching
\* case-sensitively, and returns none when no title contains either
\* substring or the order has no shipping-line list.
C19_Classifier ==
  derived.classified
    => derived.inPostCountry =
         IF PickupLines(orderData) = {}
           THEN NoCountryCode
           ELSE IF Includes(FirstPickupLine(orderData).val, TitleInPost) THEN PL ELSE FR

\* the first pickup line is the second line of the order
C19_Witness ==
  /\ derived.classified
  /\ orderData.hasLines
  /\ orderData.shipping_lines = <<Title(TitlePointsDeRetrait), Title(TitleEnvoiInPost)>>
  /\ derived.inPostCountry = PL

\* C20: every OrderShipment request the builder sends carries the caller's
\* pickup-point identifier both at the top level of the shipment and inside
\* the recipient address, and the two values are equal.
C20_PudoLocationIdTwice ==
  outReq.Command = "OrderShipment"
    => /\ outReq.PudoLocationId = req.body.pudoLocationId
       /\ outReq.ConsigneePudoLocationId = req.body.pudoLocationId
       /\ outReq.PudoLocationId # Undefined

\* --------------------------------------------------- claims on every route
CreatesShipment == req.endpoint \in {"shipment", "complete"}

\* C21: shipment creation never retries: a shipment-creation request or an
\* order-completion request causes at most one OrderShipment call to the
\* aggregator, and a failed or refused call leaves the count at one.
C21_AtMostOneOrderShipment ==
  CreatesShipment
    => /\ aggCalls <= 1
       /\ aggCalls = 1 <=> outReq.Command = "OrderShipment"
       /\ (pc = "responded" /\ reply # NoReply) => aggCalls = 1

\* the aggregator refused the shipment of a completion request; one call was made
C21_Witness ==
  /\ req.endpoint = "complete"
  /\ pc = "responded"
  /\ reply.ok /\ reply.json /\ reply.ErrorLevel = 1
  /\ resp.status = 500
  /\ aggCalls = 1

\* C22: every error response of every endpoint (status 4xx or 5xx) carries
\* success:false and an error string.
C22_ErrorEnvelope ==
  resp.status >= 400
    => /\ resp.success = "false"
       /\ resp.error # Undefined

\* the four fields the builder requires are present in the request body
FourPresent(b) ==
  /\ ~Falsy(b.pudoLocationId)
  /\ b.hasConsignee
  /\ b.products # "absent"
  /\ b.weight.kind = "num"

\* C26: the builder fails before its outbound call only when the recipient
\* address, the contents, the weight or the pickup-point identifier is
\* absent; whenever all four are present, even if the declared value or the
\* sender address is omitted, exactly one OrderShipment request is sent.
C26_BuilderFailsOnlyOnFour ==
  (req.endpoint = "shipment" /\ FourPresent(req.body))
    => /\ aggCalls = 1
       /\ outReq.Command = "OrderShipment"

\* the completion request passed the checks of its body
CompletionAdmitted ==
  /\ CompletionRequest
  /\ ~Falsy(req.orderNumber)
  /\ ~Falsy(req.body.pudoLocationId)

\* C27: order completion never answers 404 "Order not found": whatever the
\* order number and whatever the order platform did, the provider yields an
\* order and the handler goes on to build a shipment from it.
C27_NeverOrderNotFound ==
  /\ CompletionRequest => resp.status # 404 /\ resp.error # "Order not found"
  /\ (CompletionAdmitted /\ pc \notin {"idle", "awaitingOrder", "readingOrder"})
       => orderData # NoOrder /\ shipmentData.has

\* the order platform knew no such order, and a shipment was built all the same
C27_Witness ==
  /\ CompletionAdmitted
  /\ shopReply = "noOrders"
  /\ orderData # NoOrder
  /\ shipmentData.has
  /\ outReq.Command = "OrderShipment"

\* the exchange was a tracking or service-listing request, now answered
ReadOnlyAnswered ==
  /\ req.endpoint \in {"track", "services"}
  /\ pc = "responded"

\* C23: for the tracking and service-listing endpoints, an aggregator reply
\* with a non-success HTTP status or a non-zero ErrorLevel is answered with a
\* 5xx, and success:true is returned only for replies with ErrorLevel 0 (a
\* reply without the field is not counted against the handler here).
C23_UpstreamErrorsSurfaced ==
  ReadOnlyAnswered
    => /\ (~reply.ok \/ reply.ErrorLevel \notin {0, NoErrorLevel}) => resp.status >= 500
       /\ resp.success = "true" => reply.ErrorLevel \in {0, NoErrorLevel}

\* C25: every inbound request receives exactly one response: an exception
\* raised while handling it is caught at the endpoint boundary and answered
\* with a 500, so no handler run ends with the request left unanswered (a
\* handler that has stopped without responding never responds later).
C25_EveryRequestAnswered ==
  /\ pc # "unanswered"
  /\ pc = "responded" => resp.status # 0

\* ------------------------------------------------- claims on the reshaping
\* C24: every location of a lookup response has numeric latitude and
\* longitude, whatever type the aggregator sent.
C24_NumericCoordinates ==
  place.reshaped
    => /\ place.latitude.type = "number"
       /\ place.longitude.type = "number"

\* --------------------------------------------- claims on the selection page
\* C28: once the customer has confirmed a pickup point, the confirm button
\* stays disabled while a completion request is in flight and after one has
\* succeeded, so at most one request is pending and one page never creates
\* two shipments.
C28_OneCompletionPerPage ==
  /\ (page.pending > 0 \/ page.shipments > 0) => page.confirmDisabled
  /\ page.pending <= 1
  /\ page.shipments <= 1

\* the card marked selected is displayed and carries the selected id
SelectionDisplayed ==
  /\ page.selectedCard \in 1..Len(page.cards)
  /\ page.cards[page.selectedCard] = page.selectedLocation

\* C29: whenever the page sends an order-completion request, the identifier
\* it sends is the id of a card that is in the displayed list and marked
\* selected; after a new search or an empty or failed result no earlier
\* selection can be confirmed.
C29_SendsDisplayedSelection ==
  [][Len(page'.sent) > Len(page.sent)
       => /\ SelectionDisplayed
          /\ page'.sent[Len(page'.sent)].pudoLocationId = page.selectedLocation]_vars

\* C30: a page requested without a country uses FR, and the country of its
\* searches and of its completion requests is the query's country or FR.
C30_CountryIsQueryOrFR ==
  page.loaded
    => /\ page.query.kind = "absent" => page.country = FR
       /\ page.country \in {page.query.val, FR}
       /\ page.searches > 0 => page.searchCountry = page.country
       /\ \A i \in 1..Len(page.sent) : page.sent[i].country = page.country

====
